---- MODULE Spec2Model ----
(***************************************************************************)
(* pam-nextcloud: the authentication decision engine with its offline      *)
(* credential cache, the password change that reuses it, and the           *)
(* host-facing PAM verbs, translated from src/pam_nextcloud.py.            *)
(*                                                                         *)
(* The remote server and the wall clock are the environment: every         *)
(* request takes its response from a small set of responses, os.urandom    *)
(* takes its value from a small set of salts, and time advances in steps   *)
(* of one day.  The cache directory is a map from file path to file        *)
(* content.  The variable "last" records the most recent call: its         *)
(* arguments, the responses it received, what it returned and which file   *)
(* operations it performed on the cache.                                   *)
(***************************************************************************)
EXTENDS Integers, FiniteSets, Sequences, TLC

VARIABLES
    nextcloud_url,      \* self.nextcloud_url (None when not configured)
    enable_cache,       \* self.enable_cache
    cache_expiry_days,  \* self.cache_expiry_days
    cache,              \* the files of self.cache_directory, by path
    now,                \* time.time(), in seconds
    last,               \* the call in progress or just returned, and its outcome
    watched,            \* history: the (username, password) pair that is followed
    accepted,           \* history: the remote has accepted or confirmed the pair
    rejected,           \* history: the remote has rejected it and not accepted it since
    group_conf,         \* the group sections of the configuration file on disk
    group_sync,         \* the GroupSync object built from it
    passwd,             \* the local accounts (pwd)
    group,              \* the local groups and their members (grp)
    nextcloud,          \* the remote groups and their members
    shadow,             \* the local accounts whose password is locked
    etc_files,          \* configuration and account files written by the tools
    run,                \* the run of a tool that just ended: inputs, commands, exit
    prev                \* the run before it

sync_vars == <<group_conf, group_sync, passwd, group, nextcloud, shadow,
               etc_files, run, prev>>

vars == <<nextcloud_url, enable_cache, cache_expiry_days, cache, now, last,
          watched, accepted, rejected, sync_vars>>

config == <<nextcloud_url, enable_cache, cache_expiry_days>>
history == <<watched, accepted, rejected>>

----------------------------------------------------------------------------
(* Bounds and input sets *)

MaxTime == 2

Users == {"alice", "bob"}
Passwords == {"pw1", "pw2"}
UserInputs == Users \cup {""}
PasswordInputs == Passwords \cup {""}
Salts == {1, 2}
ExpiryDaysChoices == {0, 1}

None == "None"
Url == "https://cloud.example.com"

StatusCodes == {200, 401, 500}
PutStatusCodes == {200, 401, 403, 404, 500}
Exceptions == {"Timeout", "SSLError", "ConnectionError", "Exception"}

HttpResponse(code) == [exception |-> None, status_code |-> code]
RaisedBy(exc) == [exception |-> exc, status_code |-> 0]
NoResponse == [exception |-> None, status_code |-> 0]
Responses == {HttpResponse(c) : c \in StatusCodes} \cup {RaisedBy(e) : e \in Exceptions}
PutResponses == {HttpResponse(c) : c \in PutStatusCodes} \cup {RaisedBy(e) : e \in Exceptions}

----------------------------------------------------------------------------
(* Configuration: NextcloudAuth.__init__ and load_config *)

ConfigFiles ==
    {[file_exists |-> FALSE, has_section |-> FALSE, url |-> None,
      enable_cache |-> FALSE, cache_expiry_days |-> 7, directory_ok |-> TRUE],
     [file_exists |-> TRUE, has_section |-> FALSE, url |-> None,
      enable_cache |-> FALSE, cache_expiry_days |-> 7, directory_ok |-> TRUE],
     [file_exists |-> TRUE, has_section |-> TRUE, url |-> None,
      enable_cache |-> TRUE, cache_expiry_days |-> 1, directory_ok |-> TRUE],
     [file_exists |-> TRUE, has_section |-> TRUE, url |-> Url,
      enable_cache |-> FALSE, cache_expiry_days |-> 7, directory_ok |-> TRUE],
     [file_exists |-> TRUE, has_section |-> TRUE, url |-> Url,
      enable_cache |-> TRUE, cache_expiry_days |-> 1, directory_ok |-> FALSE]}
    \cup
    {[file_exists |-> TRUE, has_section |-> TRUE, url |-> Url,
      enable_cache |-> TRUE, cache_expiry_days |-> d, directory_ok |-> TRUE]
        : d \in ExpiryDaysChoices}

\* The attributes of the handle after __init__ has run load_config on the file.
load_config(cf) ==
    IF ~cf.file_exists \/ ~cf.has_section
    THEN [nextcloud_url |-> None, enable_cache |-> FALSE, cache_expiry_days |-> 7]
    ELSE [nextcloud_url |-> cf.url,
          \* _ensure_cache_directory runs only when a URL is configured and
          \* switches caching off when the directory cannot be made
          enable_cache |-> cf.enable_cache /\ (cf.url = None \/ cf.directory_ok),
          cache_expiry_days |-> cf.cache_expiry_days]

\* The methods the class statement of NextcloudAuth defines.
NextcloudAuthMethods == {"__init__", "load_config", "_ensure_cache_directory"}

hasattr(name) == name \in NextcloudAuthMethods

----------------------------------------------------------------------------
(* Credential cache *)

NoFile == [kind |-> "absent"]
\* Files that exist and that _validate_cached_password cannot use: json.load
\* raises (corrupt), open raises (unreadable), or the object read lacks a
\* field, so that the access to it raises KeyError (partial).
Corrupt == [kind |-> "corrupt"]
Unreadable == [kind |-> "unreadable"]
Partial == [kind |-> "partial"]
BrokenKinds == {"corrupt", "unreadable", "partial"}

Sha256(username) == <<"sha256", username>>

\* A faulty _get_cache_file_path that gives every user the same file.
_get_cache_file_path_shared(username) == Sha256("")

_get_cache_file_path(username) == Sha256(username)

CachePaths == {_get_cache_file_path(u) : u \in Users}

Hex(bytes) == <<"hex", bytes>>
FromHex(hex) == hex[2]

Iterations == 100000

Pbkdf2HmacSha256(password, salt, iterations) == <<"pbkdf2", password, salt, iterations>>

_hash_password(password, salt) == Hex(Pbkdf2HmacSha256(password, salt, Iterations))

\* A faulty _cache_password that leaves an existing entry's salt and
\* timestamp as they are (C9 fails with it).
_cache_password_keeping_old(c, username, password, salt, t) ==
    LET old == c[_get_cache_file_path(username)] IN
    IF ~enable_cache THEN c
    ELSE IF old.kind = "json"
    THEN [c EXCEPT ![_get_cache_file_path(username)] =
            [kind |-> "json",
             username |-> username,
             password_hash |-> _hash_password(password, FromHex(old.salt)),
             salt |-> old.salt,
             timestamp |-> old.timestamp]]
    ELSE [c EXCEPT ![_get_cache_file_path(username)] =
            [kind |-> "json",
             username |-> username,
             password_hash |-> _hash_password(password, salt),
             salt |-> Hex(salt),
             timestamp |-> t]]

\* The cache after _cache_password(username, password), salt being the
\* value os.urandom returned and t the value of time.time().
_cache_password(c, username, password, salt, t) ==
    IF ~enable_cache THEN c
    ELSE [c EXCEPT ![_get_cache_file_path(username)] =
            [kind |-> "json",
             username |-> username,
             password_hash |-> _hash_password(password, salt),
             salt |-> Hex(salt),
             timestamp |-> t]]

DaySeconds == 24 * 3600

\* A faulty _is_cache_expired without the special case of 0 (C8 fails with it).
_is_cache_expired_without_never(timestamp, t) ==
    t > timestamp + (cache_expiry_days * DaySeconds)

_is_cache_expired(timestamp, t) ==
    IF cache_expiry_days = 0 THEN FALSE
    ELSE t > timestamp + (cache_expiry_days * DaySeconds)

\* A faulty _validate_cached_password without the username check (C7 fails
\* with it).
_validate_cached_password_any_username(c, username, password, t) ==
    LET cache_file == _get_cache_file_path(username)
        cache_data == c[cache_file]
    IN  IF ~enable_cache THEN [ret |-> FALSE, cache |-> c, ops |-> {}]
        ELSE IF cache_data.kind = "absent"
        THEN [ret |-> FALSE, cache |-> c, ops |-> {"exists"}]
        ELSE IF cache_data.kind \in BrokenKinds
        THEN [ret |-> FALSE, cache |-> c, ops |-> {"exists", "read"}]
        ELSE IF _is_cache_expired(cache_data.timestamp, t)
        THEN [ret |-> FALSE, cache |-> [c EXCEPT ![cache_file] = NoFile],
              ops |-> {"exists", "read", "remove"}]
        ELSE [ret |-> _hash_password(password, FromHex(cache_data.salt))
                        = cache_data.password_hash,
              cache |-> c, ops |-> {"exists", "read"}]

\* A faulty _validate_cached_password that renews the timestamp of an entry
\* that verifies the password.
_validate_cached_password_refreshing(c, username, password, t) ==
    LET cache_file == _get_cache_file_path(username)
        cache_data == c[cache_file]
    IN  IF ~enable_cache THEN [ret |-> FALSE, cache |-> c, ops |-> {}]
        ELSE IF cache_data.kind = "absent"
        THEN [ret |-> FALSE, cache |-> c, ops |-> {"exists"}]
        ELSE IF cache_data.kind \in BrokenKinds
        THEN [ret |-> FALSE, cache |-> c, ops |-> {"exists", "read"}]
        ELSE IF _is_cache_expired(cache_data.timestamp, t)
        THEN [ret |-> FALSE, cache |-> [c EXCEPT ![cache_file] = NoFile],
              ops |-> {"exists", "read", "remove"}]
        ELSE IF cache_data.username # username
        THEN [ret |-> FALSE, cache |-> c, ops |-> {"exists", "read"}]
        ELSE IF _hash_password(password, FromHex(cache_data.salt)) = cache_data.password_hash
        THEN [ret |-> TRUE, cache |-> [c EXCEPT ![cache_file].timestamp = t],
              ops |-> {"exists", "read"}]
        ELSE [ret |-> FALSE, cache |-> c, ops |-> {"exists", "read"}]

\* _validate_cached_password: the value returned, the cache afterwards and
\* the file operations performed.
_validate_cached_password(c, username, password, t) ==
    LET cache_file == _get_cache_file_path(username)
        cache_data == c[cache_file]
    IN  IF ~enable_cache THEN [ret |-> FALSE, cache |-> c, ops |-> {}]
        ELSE IF cache_data.kind = "absent"
        THEN [ret |-> FALSE, cache |-> c, ops |-> {"exists"}]
        ELSE IF cache_data.kind \in BrokenKinds
        \* open, json.load or the field access raises; caught, logged, False
        THEN [ret |-> FALSE, cache |-> c, ops |-> {"exists", "read"}]
        ELSE IF _is_cache_expired(cache_data.timestamp, t)
        THEN [ret |-> FALSE, cache |-> [c EXCEPT ![cache_file] = NoFile],
              ops |-> {"exists", "read", "remove"}]
        ELSE IF cache_data.username # username
        THEN [ret |-> FALSE, cache |-> c, ops |-> {"exists", "read"}]
        ELSE [ret |-> _hash_password(password, FromHex(cache_data.salt))
                        = cache_data.password_hash,
              cache |-> c, ops |-> {"exists", "read"}]

----------------------------------------------------------------------------
(* Authentication decision engine *)

\* The except clauses without the closing "except Exception" (C5 fails with
\* them).
ExceptClausesWithoutCatchAll == {"Timeout", "SSLError", "ConnectionError"}

\* The except clauses of authenticate, and what each catches.
ExceptClauses == {"Timeout", "SSLError", "ConnectionError", "Exception"}

IsCaughtBy(exc, clause) ==
    \/ clause = exc
    \/ clause = "Exception"
    \/ exc = "SSLError" /\ clause = "ConnectionError"

\* A faulty try_cache that a 401 sets as well (C1 and C6 fail with it).
try_cache_after_reject(response) ==
    IF response.exception = None
    THEN response.status_code # 200
    ELSE \E clause \in ExceptClauses : IsCaughtBy(response.exception, clause)

\* try_cache after the request: set by the else branch of the status test
\* and by every except clause, left False by a 200 and by a 401.
try_cache(response) ==
    IF response.exception = None
    THEN response.status_code \notin {200, 401}
    ELSE \E clause \in ExceptClauses : IsCaughtBy(response.exception, clause)

\* A faulty authenticate without the test of the configured URL (C16 fails
\* with it).
authenticate_unconfigured(c, username, password, response, salt, t) ==
    IF username = "" \/ password = ""
    THEN [ret |-> FALSE, raised |-> FALSE, requested |-> FALSE, cache |-> c, ops |-> {}]
    ELSE IF response.exception = None /\ response.status_code = 200
    THEN [ret |-> TRUE, raised |-> FALSE, requested |-> TRUE,
          cache |-> IF enable_cache
                    THEN _cache_password(c, username, password, salt, t) ELSE c,
          ops |-> IF enable_cache THEN {"write"} ELSE {}]
    ELSE IF try_cache(response) /\ enable_cache
    THEN LET v == _validate_cached_password(c, username, password, t)
         IN  [ret |-> v.ret, raised |-> FALSE, requested |-> TRUE,
              cache |-> v.cache, ops |-> v.ops]
    ELSE [ret |-> FALSE, raised |-> FALSE, requested |-> TRUE, cache |-> c, ops |-> {}]

\* A faulty authenticate that tests the username for emptiness and not the
\* password (C17 fails with it).
authenticate_without_password_check(c, username, password, response, salt, t) ==
    IF nextcloud_url = None \/ username = ""
    THEN [ret |-> FALSE, raised |-> FALSE, requested |-> FALSE, cache |-> c, ops |-> {}]
    ELSE IF response.exception = None /\ response.status_code = 200
    THEN [ret |-> TRUE, raised |-> FALSE, requested |-> TRUE,
          cache |-> IF enable_cache
                    THEN _cache_password(c, username, password, salt, t) ELSE c,
          ops |-> IF enable_cache THEN {"write"} ELSE {}]
    ELSE IF try_cache(response) /\ enable_cache
    THEN LET v == _validate_cached_password(c, username, password, t)
         IN  [ret |-> v.ret, raised |-> FALSE, requested |-> TRUE,
              cache |-> v.cache, ops |-> v.ops]
    ELSE [ret |-> FALSE, raised |-> FALSE, requested |-> TRUE, cache |-> c, ops |-> {}]

\* authenticate: ret is the value returned, raised tells whether an
\* exception left the function, requested whether the request was sent.
authenticate(c, username, password, response, salt, t) ==
    IF nextcloud_url = None
    THEN [ret |-> FALSE, raised |-> FALSE, requested |-> FALSE, cache |-> c, ops |-> {}]
    ELSE IF username = "" \/ password = ""
    THEN [ret |-> FALSE, raised |-> FALSE, requested |-> FALSE, cache |-> c, ops |-> {}]
    ELSE IF response.exception = None /\ response.status_code = 200
    THEN [ret |-> TRUE, raised |-> FALSE, requested |-> TRUE,
          cache |-> IF enable_cache
                    THEN _cache_password(c, username, password, salt, t) ELSE c,
          ops |-> IF enable_cache THEN {"write"} ELSE {}]
    ELSE IF response.exception # None
            /\ ~(\E clause \in ExceptClauses : IsCaughtBy(response.exception, clause))
    THEN [ret |-> FALSE, raised |-> TRUE, requested |-> TRUE, cache |-> c, ops |-> {}]
    \* a 401 returns False at once: try_cache is still False
    ELSE IF try_cache(response) /\ enable_cache
    THEN LET v == _validate_cached_password(c, username, password, t)
         IN  [ret |-> v.ret, raised |-> FALSE, requested |-> TRUE,
              cache |-> v.cache, ops |-> v.ops]
    ELSE [ret |-> FALSE, raised |-> FALSE, requested |-> TRUE, cache |-> c, ops |-> {}]

----------------------------------------------------------------------------
(* Password change *)

\* The structured bodies a 200 response to the password update can carry.
\* meta: "present" (the XML has a meta section), "absent" (it parses but has
\* none) or "unparseable"; NoBody when the response is not a 200.
PutBodies ==
    {[meta |-> "present", status |-> "ok", statuscode |-> 100],
     [meta |-> "present", status |-> "failure", statuscode |-> 102],
     [meta |-> "absent", status |-> None, statuscode |-> 0],
     [meta |-> "unparseable", status |-> None, statuscode |-> 0]}
NoBody == [meta |-> None, status |-> None, statuscode |-> 0]

\* The remote's own reading of its answer: the status field says ok / 100.
OcsStatusOk(body) ==
    body.meta = "present" /\ (body.status = "ok" \/ body.statuscode = 100)

\* A faulty change_password that sends the update whatever the verification
\* of the old password returned (C12 fails with it).
change_password_without_verify(c, username, old_password, new_password, response, salt, put_response, new_salt, t) ==
    LET not_called == [ret |-> FALSE, raised |-> FALSE, requested |-> FALSE,
                       cache |-> c, ops |-> {}]
    IN
    IF nextcloud_url = None \/ username = "" \/ old_password = "" \/ new_password = ""
    THEN [ret |-> FALSE, raised |-> FALSE, auth |-> not_called, put_sent |-> FALSE,
          cache |-> c, commit_ops |-> {}]
    ELSE LET a == authenticate(c, username, old_password, response, salt, t) IN
         IF put_response.exception = None /\ put_response.status_code = 200
         THEN [ret |-> TRUE, raised |-> FALSE, auth |-> a, put_sent |-> TRUE,
               cache |-> IF enable_cache
                         THEN _cache_password(a.cache, username, new_password, new_salt, t)
                         ELSE a.cache,
               commit_ops |-> IF enable_cache THEN {"write"} ELSE {}]
         ELSE [ret |-> FALSE, raised |-> FALSE, auth |-> a, put_sent |-> TRUE,
               cache |-> a.cache, commit_ops |-> {}]

\* A faulty change_password that leaves the cache with what the verification
\* of the old password wrote (C13 fails with it).
change_password_without_refresh(c, username, old_password, new_password, response, salt, put_response, new_salt, t) ==
    LET not_called == [ret |-> FALSE, raised |-> FALSE, requested |-> FALSE,
                       cache |-> c, ops |-> {}]
    IN
    IF nextcloud_url = None \/ username = "" \/ old_password = "" \/ new_password = ""
    THEN [ret |-> FALSE, raised |-> FALSE, auth |-> not_called, put_sent |-> FALSE,
          cache |-> c, commit_ops |-> {}]
    ELSE LET a == authenticate(c, username, old_password, response, salt, t) IN
         IF a.raised \/ ~a.ret
         THEN [ret |-> FALSE, raised |-> a.raised, auth |-> a, put_sent |-> FALSE,
               cache |-> a.cache, commit_ops |-> {}]
         ELSE [ret |-> put_response.exception = None /\ put_response.status_code = 200,
               raised |-> FALSE, auth |-> a, put_sent |-> TRUE,
               cache |-> a.cache, commit_ops |-> {}]

\* A faulty change_password whose commit phase, when the update is not
\* answered with 200, decides by the cache as authenticate does (C14 fails
\* with it).
change_password_with_fallback(c, username, old_password, new_password, response, salt, put_response, new_salt, t) ==
    LET not_called == [ret |-> FALSE, raised |-> FALSE, requested |-> FALSE,
                       cache |-> c, ops |-> {}]
    IN
    IF nextcloud_url = None \/ username = "" \/ old_password = "" \/ new_password = ""
    THEN [ret |-> FALSE, raised |-> FALSE, auth |-> not_called, put_sent |-> FALSE,
          cache |-> c, commit_ops |-> {}]
    ELSE LET a == authenticate(c, username, old_password, response, salt, t) IN
         IF a.raised \/ ~a.ret
         THEN [ret |-> FALSE, raised |-> a.raised, auth |-> a, put_sent |-> FALSE,
               cache |-> a.cache, commit_ops |-> {}]
         ELSE IF put_response.exception = None /\ put_response.status_code = 200
         THEN [ret |-> TRUE, raised |-> FALSE, auth |-> a, put_sent |-> TRUE,
               cache |-> IF enable_cache
                         THEN _cache_password(a.cache, username, new_password, new_salt, t)
                         ELSE a.cache,
               commit_ops |-> IF enable_cache THEN {"write"} ELSE {}]
         ELSE LET v == _validate_cached_password(a.cache, username, old_password, t) IN
              [ret |-> v.ret, raised |-> FALSE, auth |-> a, put_sent |-> TRUE,
               cache |-> v.cache, commit_ops |-> v.ops]

\* change_password: auth is the result of the authenticate call (phase 1),
\* put_sent whether the update request was sent, commit_ops the cache
\* operations of the commit phase.
change_password(c, username, old_password, new_password, response, salt, put_response, new_salt, t) ==
    LET not_called == [ret |-> FALSE, raised |-> FALSE, requested |-> FALSE,
                       cache |-> c, ops |-> {}]
    IN
    IF nextcloud_url = None
    THEN [ret |-> FALSE, raised |-> FALSE, auth |-> not_called, put_sent |-> FALSE,
          cache |-> c, commit_ops |-> {}]
    ELSE IF username = "" \/ old_password = "" \/ new_password = ""
    THEN [ret |-> FALSE, raised |-> FALSE, auth |-> not_called, put_sent |-> FALSE,
          cache |-> c, commit_ops |-> {}]
    ELSE LET a == authenticate(c, username, old_password, response, salt, t) IN
         IF a.raised
         THEN [ret |-> FALSE, raised |-> TRUE, auth |-> a, put_sent |-> FALSE,
               cache |-> a.cache, commit_ops |-> {}]
         ELSE IF ~a.ret
         THEN [ret |-> FALSE, raised |-> FALSE, auth |-> a, put_sent |-> FALSE,
               cache |-> a.cache, commit_ops |-> {}]
         ELSE IF put_response.exception = None /\ put_response.status_code = 200
         THEN [ret |-> TRUE, raised |-> FALSE, auth |-> a, put_sent |-> TRUE,
               cache |-> IF enable_cache
                         THEN _cache_password(a.cache, username, new_password, new_salt, t)
                         ELSE a.cache,
               commit_ops |-> IF enable_cache THEN {"write"} ELSE {}]
         \* 401, 403, 404, any other status and every exception: False
         ELSE [ret |-> FALSE, raised |-> FALSE, auth |-> a, put_sent |-> TRUE,
               cache |-> a.cache, commit_ops |-> {}]

----------------------------------------------------------------------------
(* Host-facing verbs *)

\* The places of a verb where a call it makes can raise: an exception of the
\* PAM handle (pamh.exception) or any other exception.
PamhExceptions == {"pamh.get_user", "pamh.authtok"}
UnexpectedExceptions == {"get_user", "authtok", "NextcloudAuth"}
Faults == {None} \cup PamhExceptions \cup UnexpectedExceptions

\* What the "except Exception" clause that closes each verb returns.
pam_sm_authenticate_except == "PAM_AUTH_ERR"
\* A faulty handler that lets the stack go on (C15 fails with it).
pam_sm_chauthtok_except_ignored == "PAM_SUCCESS"
pam_sm_chauthtok_except == "PAM_AUTHTOK_ERR"

\* pam_sm_authenticate on the handle built from the configuration; fault is
\* the place where a call raises, if any.  exception is what was raised
\* inside the verb.  The steps that follow a granted authentication
\* (provisioning, capturing the groups) catch their own exceptions and do not
\* change the value returned.
pam_sm_authenticate(c, username, password, response, salt, t, fault) ==
    LET not_called == [ret |-> FALSE, raised |-> FALSE, requested |-> FALSE,
                       cache |-> c, ops |-> {}]
    IN
    IF fault = "get_user"
    THEN [pam |-> pam_sm_authenticate_except, auth |-> not_called, exception |-> fault]
    ELSE IF fault = "pamh.get_user"
    THEN [pam |-> "PAM_USER_UNKNOWN", auth |-> not_called, exception |-> fault]
    ELSE IF username = ""
    THEN [pam |-> "PAM_USER_UNKNOWN", auth |-> not_called, exception |-> None]
    ELSE IF fault = "authtok"
    THEN [pam |-> pam_sm_authenticate_except, auth |-> not_called, exception |-> fault]
    ELSE IF fault = "pamh.authtok"
    THEN [pam |-> "PAM_AUTH_ERR", auth |-> not_called, exception |-> fault]
    ELSE IF password = ""
    THEN [pam |-> "PAM_AUTH_ERR", auth |-> not_called, exception |-> None]
    ELSE IF fault = "NextcloudAuth"
    THEN [pam |-> pam_sm_authenticate_except, auth |-> not_called, exception |-> fault]
    ELSE IF ~hasattr("authenticate")
    THEN [pam |-> "PAM_AUTH_ERR", auth |-> not_called, exception |-> None]
    ELSE LET a == authenticate(c, username, password, response, salt, t) IN
         IF a.raised
         THEN [pam |-> pam_sm_authenticate_except, auth |-> a, exception |-> "authenticate"]
         ELSE IF a.ret THEN [pam |-> "PAM_SUCCESS", auth |-> a, exception |-> None]
         ELSE [pam |-> "PAM_AUTH_ERR", auth |-> a, exception |-> None]

PAM_PRELIM_CHECK == "PAM_PRELIM_CHECK"
PAM_UPDATE_AUTHTOK == "PAM_UPDATE_AUTHTOK"
Flags == SUBSET {PAM_PRELIM_CHECK, PAM_UPDATE_AUTHTOK}

\* A faulty pam_sm_chauthtok that reports success for a call with neither flag.
pam_sm_chauthtok_unknown_flag_accepted(c, username, flags, oldauthtok, authtok, prompted, confirmed, response, salt, put_response, new_salt, t, fault) ==
    LET not_called == [ret |-> FALSE, raised |-> FALSE, requested |-> FALSE,
                       cache |-> c, ops |-> {}]
        nothing == [pam |-> None, exception |-> None, old_password |-> "",
                    new_password |-> "", auth |-> not_called, put_sent |-> FALSE,
                    cache |-> c, commit_ops |-> {}]
    IN
    IF fault = "get_user"
    THEN [nothing EXCEPT !.pam = pam_sm_chauthtok_except, !.exception = fault]
    ELSE IF fault = "pamh.get_user"
    THEN [nothing EXCEPT !.pam = "PAM_USER_UNKNOWN", !.exception = fault]
    ELSE IF username = ""
    THEN [nothing EXCEPT !.pam = "PAM_USER_UNKNOWN"]
    ELSE IF fault = "NextcloudAuth"
    THEN [nothing EXCEPT !.pam = pam_sm_chauthtok_except, !.exception = fault]
    ELSE IF PAM_PRELIM_CHECK \in flags
    THEN LET old_password == IF authtok = None THEN prompted ELSE authtok IN
         IF fault = "authtok"
         THEN [nothing EXCEPT !.pam = pam_sm_chauthtok_except, !.exception = fault]
         ELSE IF fault = "pamh.authtok"
         THEN [nothing EXCEPT !.pam = "PAM_AUTHTOK_ERR", !.exception = fault]
         ELSE IF old_password = ""
         THEN [nothing EXCEPT !.pam = "PAM_AUTHTOK_ERR"]
         ELSE IF ~hasattr("authenticate")
         THEN [nothing EXCEPT !.pam = pam_sm_chauthtok_except,
                              !.exception = "AttributeError",
                              !.old_password = old_password]
         ELSE LET a == authenticate(c, username, old_password, response, salt, t) IN
              [nothing EXCEPT !.pam = IF a.raised THEN pam_sm_chauthtok_except
                                      ELSE IF a.ret THEN "PAM_SUCCESS"
                                      ELSE "PAM_AUTHTOK_ERR",
                              !.exception = IF a.raised THEN "authenticate" ELSE None,
                              !.old_password = old_password,
                              !.auth = a, !.cache = a.cache]
    ELSE IF PAM_UPDATE_AUTHTOK \in flags
    THEN LET old_password == IF oldauthtok = None
                             THEN (IF authtok = None THEN "" ELSE authtok)
                             ELSE oldauthtok
             new_password == IF authtok = None THEN prompted ELSE authtok
         IN
         IF fault = "authtok"
         THEN [nothing EXCEPT !.pam = pam_sm_chauthtok_except, !.exception = fault]
         ELSE IF fault = "pamh.authtok"
         THEN [nothing EXCEPT !.pam = "PAM_AUTHTOK_ERR", !.exception = fault]
         ELSE IF old_password = ""
         THEN [nothing EXCEPT !.pam = "PAM_AUTHTOK_ERR"]
         ELSE IF authtok = None /\ ~confirmed
         THEN [nothing EXCEPT !.pam = "PAM_AUTHTOK_ERR", !.old_password = old_password]
         ELSE IF new_password = ""
         THEN [nothing EXCEPT !.pam = "PAM_AUTHTOK_ERR", !.old_password = old_password]
         ELSE IF ~hasattr("change_password")
         THEN [nothing EXCEPT !.pam = pam_sm_chauthtok_except,
                              !.exception = "AttributeError",
                              !.old_password = old_password,
                              !.new_password = new_password]
         ELSE LET r == change_password(c, username, old_password, new_password,
                                       response, salt, put_response, new_salt, t)
              IN
              [nothing EXCEPT !.pam = IF r.raised THEN pam_sm_chauthtok_except
                                      ELSE IF r.ret THEN "PAM_SUCCESS"
                                      ELSE "PAM_AUTHTOK_ERR",
                              !.exception = IF r.raised THEN "change_password" ELSE None,
                              !.old_password = old_password,
                              !.new_password = new_password,
                              !.auth = r.auth, !.put_sent = r.put_sent,
                              !.cache = r.cache, !.commit_ops = r.commit_ops]
    ELSE [nothing EXCEPT !.pam = "PAM_SUCCESS"]

\* pam_sm_chauthtok; oldauthtok and authtok are the items of the PAM handle
\* (None when not set), prompted the answer to a prompt, confirmed whether the
\* retyped new password is the same.  old_password and new_password are the
\* values the verb arrives at, engine the result of the call on the handle.
pam_sm_chauthtok(c, username, flags, oldauthtok, authtok, prompted, confirmed, response, salt, put_response, new_salt, t, fault) ==
    LET not_called == [ret |-> FALSE, raised |-> FALSE, requested |-> FALSE,
                       cache |-> c, ops |-> {}]
        nothing == [pam |-> None, exception |-> None, old_password |-> "",
                    new_password |-> "", auth |-> not_called, put_sent |-> FALSE,
                    cache |-> c, commit_ops |-> {}]
    IN
    IF fault = "get_user"
    THEN [nothing EXCEPT !.pam = pam_sm_chauthtok_except, !.exception = fault]
    ELSE IF fault = "pamh.get_user"
    THEN [nothing EXCEPT !.pam = "PAM_USER_UNKNOWN", !.exception = fault]
    ELSE IF username = ""
    THEN [nothing EXCEPT !.pam = "PAM_USER_UNKNOWN"]
    ELSE IF fault = "NextcloudAuth"
    THEN [nothing EXCEPT !.pam = pam_sm_chauthtok_except, !.exception = fault]
    ELSE IF PAM_PRELIM_CHECK \in flags
    THEN LET old_password == IF authtok = None THEN prompted ELSE authtok IN
         IF fault = "authtok"
         THEN [nothing EXCEPT !.pam = pam_sm_chauthtok_except, !.exception = fault]
         ELSE IF fault = "pamh.authtok"
         THEN [nothing EXCEPT !.pam = "PAM_AUTHTOK_ERR", !.exception = fault]
         ELSE IF old_password = ""
         THEN [nothing EXCEPT !.pam = "PAM_AUTHTOK_ERR"]
         ELSE IF ~hasattr("authenticate")
         THEN [nothing EXCEPT !.pam = pam_sm_chauthtok_except,
                              !.exception = "AttributeError",
                              !.old_password = old_password]
         ELSE LET a == authenticate(c, username, old_password, response, salt, t) IN
              [nothing EXCEPT !.pam = IF a.raised THEN pam_sm_chauthtok_except
                                      ELSE IF a.ret THEN "PAM_SUCCESS"
                                      ELSE "PAM_AUTHTOK_ERR",
                              !.exception = IF a.raised THEN "authenticate" ELSE None,
                              !.old_password = old_password,
                              !.auth = a, !.cache = a.cache]
    ELSE IF PAM_UPDATE_AUTHTOK \in flags
    THEN LET old_password == IF oldauthtok = None
                             THEN (IF authtok = None THEN "" ELSE authtok)
                             ELSE oldauthtok
             new_password == IF authtok = None THEN prompted ELSE authtok
         IN
         IF fault = "authtok"
         THEN [nothing EXCEPT !.pam = pam_sm_chauthtok_except, !.exception = fault]
         ELSE IF fault = "pamh.authtok"
         THEN [nothing EXCEPT !.pam = "PAM_AUTHTOK_ERR", !.exception = fault]
         ELSE IF old_password = ""
         THEN [nothing EXCEPT !.pam = "PAM_AUTHTOK_ERR"]
         ELSE IF authtok = None /\ ~confirmed
         THEN [nothing EXCEPT !.pam = "PAM_AUTHTOK_ERR", !.old_password = old_password]
         ELSE IF new_password = ""
         THEN [nothing EXCEPT !.pam = "PAM_AUTHTOK_ERR", !.old_password = old_password]
         ELSE IF ~hasattr("change_password")
         THEN [nothing EXCEPT !.pam = pam_sm_chauthtok_except,
                              !.exception = "AttributeError",
                              !.old_password = old_password,
                              !.new_password = new_password]
         ELSE LET r == change_password(c, username, old_password, new_password,
                                       response, salt, put_response, new_salt, t)
              IN
              [nothing EXCEPT !.pam = IF r.raised THEN pam_sm_chauthtok_except
                                      ELSE IF r.ret THEN "PAM_SUCCESS"
                                      ELSE "PAM_AUTHTOK_ERR",
                              !.exception = IF r.raised THEN "change_password" ELSE None,
                              !.old_password = old_password,
                              !.new_password = new_password,
                              !.auth = r.auth, !.put_sent = r.put_sent,
                              !.cache = r.cache, !.commit_ops = r.commit_ops]
    ELSE [nothing EXCEPT !.pam = "PAM_SERVICE_ERR"]

\* What the session sees of its surroundings: the configuration file and its
\* switches, the desktop and group scripts, the password item of the PAM
\* handle and the group list captured at authentication.
SessionSettings ==
    {[file_exists |-> FALSE, enable_user_provisioning |-> FALSE,
      enable_group_sync |-> FALSE, scripts |-> FALSE],
     [file_exists |-> TRUE, enable_user_provisioning |-> FALSE,
      enable_group_sync |-> FALSE, scripts |-> FALSE],
     [file_exists |-> TRUE, enable_user_provisioning |-> TRUE,
      enable_group_sync |-> TRUE, scripts |-> TRUE]}

\* The places of pam_sm_open_session where a call can raise.
SessionFaults ==
    {None, "config", "pamh.get_user", "get_user", "_ensure_home_directory",
     "desktop", "NextcloudAuth", "groups_file", "group_sync"}

\* What pam_sm_open_session returns after its "except Exception" clause has
\* logged the exception: the return statement that ends the function.
\* A faulty one that reports the failure to the host (C20 fails with it).
pam_sm_open_session_except_reported == "PAM_SESSION_ERR"
pam_sm_open_session_except == "PAM_SUCCESS"

\* pam_sm_open_session: steps are the steps carried out (the home directory
\* ensured, the desktop script and the group script started), exception what
\* was raised inside the verb.
pam_sm_open_session(username, settings, password, captured, fault) ==
    LET result(pam, exception, steps) ==
            [pam |-> pam, exception |-> exception, steps |-> steps]
        home == IF settings.enable_user_provisioning
                   /\ fault # "_ensure_home_directory"
                THEN {"home"} ELSE {}
        desktop == IF settings.scripts /\ fault # "desktop" THEN {"desktop"} ELSE {}
        \* the group list the session obtains, if any
        retrieved == IF password # None /\ password # ""
                     THEN hasattr("get_user_groups")
                     ELSE captured /\ fault # "groups_file"
        groups == IF settings.enable_group_sync /\ fault # "NextcloudAuth"
                     /\ retrieved /\ settings.scripts /\ fault # "group_sync"
                  THEN {"groups"} ELSE {}
        raised == \/ fault = "_ensure_home_directory" /\ settings.enable_user_provisioning
                  \/ fault = "desktop" /\ settings.scripts
                  \/ fault = "NextcloudAuth" /\ settings.enable_group_sync
                  \/ /\ fault = "groups_file"
                     /\ settings.enable_group_sync
                     /\ (password = None \/ password = "")
                  \/ /\ fault = "group_sync"
                     /\ settings.enable_group_sync /\ retrieved /\ settings.scripts
        attribute_error == /\ settings.enable_group_sync
                           /\ fault # "NextcloudAuth"
                           /\ password # None /\ password # ""
                           /\ ~hasattr("get_user_groups")
    IN
    IF ~settings.file_exists THEN result("PAM_SUCCESS", None, {})
    ELSE IF fault = "config" THEN result(pam_sm_open_session_except, fault, {})
    ELSE IF fault = "pamh.get_user" THEN result("PAM_SUCCESS", fault, {})
    ELSE IF fault = "get_user" THEN result(pam_sm_open_session_except, fault, {})
    ELSE IF username = "" THEN result("PAM_SUCCESS", None, {})
    ELSE result("PAM_SUCCESS",
                IF raised THEN fault
                ELSE IF attribute_error THEN "AttributeError" ELSE None,
                home \cup desktop \cup groups)

pam_sm_close_session == [pam |-> "PAM_SUCCESS", exception |-> None, steps |-> {}]

----------------------------------------------------------------------------
(* The record of a call *)

NoCall ==
    [verb |-> "none", username |-> "", password |-> "", new_password |-> "",
     response |-> NoResponse, salt |-> 0, requested |-> FALSE,
     put_response |-> NoResponse, body |-> NoBody, new_salt |-> 0, put_sent |-> FALSE,
     ret |-> FALSE, raised |-> FALSE, ops |-> {}, commit_ops |-> {}, pam |-> None,
     flags |-> {}, exception |-> None, steps |-> {}]

\* The values os.urandom can return where it is called, 0 where it is not.
SaltDraws(drawn) == IF drawn THEN Salts ELSE {0}

\* The responses a request can receive where it is sent.
ResponseDraws(sent) == IF sent THEN Responses ELSE {NoResponse}
\* The responses followed through a password change for its first phase: one
\* accept, one reject and one of the outcomes that fall through to the cache.
OldPasswordResponses == {HttpResponse(200), HttpResponse(401), RaisedBy("Timeout")}
OldPasswordResponseDraws(sent) == IF sent THEN OldPasswordResponses ELSE {NoResponse}
PutResponseDraws(sent) == IF sent THEN PutResponses ELSE {NoResponse}

IsOk(response) == response = HttpResponse(200)

----------------------------------------------------------------------------
(* Initial state and actions *)

\* GroupSync.__init__: the fields of a GroupSync object before load_config.
\* Names of groups and users are strings, written as tuples of characters.
GroupSync_init ==
    [group_mapping |-> <<>>,
     managed_groups_prefix |-> <<>>,
     enable_sudo_mapping |-> FALSE,
     create_missing_groups |-> TRUE]

\* No configuration file on disk.
NoGroupConf ==
    [exists |-> FALSE, has_group_mapping |-> FALSE, group_mapping |-> <<>>,
     has_group_sync |-> FALSE, prefix |-> <<>>,
     enable_sudo_mapping |-> FALSE, create_missing_groups |-> TRUE]

\* No file written by the tools.
NoFiles == [gdm |-> FALSE, accounts |-> {}]

\* No tool has run.
NoRun ==
    [tool |-> "none", nc_group |-> <<>>, mapped |-> <<>>,
     username |-> <<>>, nextcloud_groups |-> <<>>, faults |-> {},
     ret |-> TRUE, ops |-> <<>>, trace |-> <<>>,
     mode |-> "", dry_run |-> FALSE, setup |-> "", order |-> <<>>,
     exit |-> 0, raised |-> FALSE, left |-> {}, failed_requests |-> {}, members |-> {}]

\* The accounts, the groups and the tools at rest, while the module is followed.
NoSync ==
    /\ group_conf = NoGroupConf
    /\ group_sync = GroupSync_init
    /\ passwd = {}
    /\ group = <<>>
    /\ nextcloud = <<>>
    /\ shadow = {}
    /\ etc_files = NoFiles
    /\ run = NoRun
    /\ prev = NoRun

InitHandle ==
    /\ \E cf \in ConfigFiles :
          /\ nextcloud_url = load_config(cf).nextcloud_url
          /\ enable_cache = load_config(cf).enable_cache
          /\ cache_expiry_days = load_config(cf).cache_expiry_days
    /\ cache = [f \in CachePaths |-> NoFile]
    /\ now = 0
    /\ last = NoCall
    /\ NoSync

NoPair == <<"", "">>

Init ==
    /\ InitHandle
    /\ watched = NoPair
    /\ accepted = FALSE
    /\ rejected = FALSE

\* A call of authenticate(username, password) on a handle.
AuthenticateCall ==
    /\ last = NoCall
    /\ \E username \in UserInputs, password \in PasswordInputs :
       \E response \in ResponseDraws(nextcloud_url # None /\ username # ""
                                     /\ password # "") :
       \E salt \in SaltDraws(IsOk(response) /\ enable_cache) :
          LET a == authenticate(cache, username, password, response, salt, now) IN
          /\ cache' = a.cache
          /\ last' = [NoCall EXCEPT !.verb = "authenticate", !.username = username,
                         !.password = password, !.response = response, !.salt = salt,
                         !.requested = a.requested, !.ret = a.ret, !.raised = a.raised,
                         !.ops = a.ops]
          /\ UNCHANGED <<config, now, sync_vars>>

\* A call of change_password(username, old_password, new_password).
ChangePasswordCall ==
    /\ last = NoCall
    /\ \E username \in UserInputs, old_password \in PasswordInputs,
          new_password \in PasswordInputs :
       \E response \in OldPasswordResponseDraws(nextcloud_url # None /\ username # ""
                                     /\ old_password # "" /\ new_password # "") :
       \E salt \in SaltDraws(IsOk(response) /\ enable_cache) :
       \E put_response \in PutResponseDraws(
             authenticate(cache, username, old_password, response, salt, now).ret
             /\ new_password # "") :
       \E body \in (IF IsOk(put_response) THEN PutBodies ELSE {NoBody}) :
       \E new_salt \in SaltDraws(IsOk(put_response) /\ enable_cache) :
          LET r == change_password(cache, username, old_password, new_password,
                                   response, salt, put_response, new_salt, now)
          IN
          /\ cache' = r.cache
          /\ last' = [NoCall EXCEPT !.verb = "change_password", !.username = username,
                         !.password = old_password, !.new_password = new_password,
                         !.response = response, !.salt = salt,
                         !.requested = r.auth.requested,
                         !.put_response = put_response, !.body = body,
                         !.new_salt = new_salt, !.put_sent = r.put_sent,
                         !.ret = r.ret, !.raised = r.raised,
                         !.ops = r.auth.ops, !.commit_ops = r.commit_ops]
          /\ UNCHANGED <<config, now, sync_vars>>

\* The host calls pam_sm_authenticate; response is what the remote answers,
\* or would answer, to the credential-verification request.
PamSmAuthenticateCall ==
    /\ last = NoCall
    /\ \E username \in UserInputs, password \in PasswordInputs, fault \in Faults :
       \E response \in ResponseDraws(nextcloud_url # None /\ username # ""
                                     /\ password # "" /\ fault = None) :
       \E salt \in SaltDraws(hasattr("authenticate") /\ IsOk(response) /\ enable_cache) :
          LET r == pam_sm_authenticate(cache, username, password, response, salt, now,
                                       fault)
          IN
          /\ cache' = r.auth.cache
          /\ last' = [NoCall EXCEPT !.verb = "pam_sm_authenticate",
                         !.username = username, !.password = password,
                         !.response = response, !.salt = salt,
                         !.requested = r.auth.requested, !.ret = r.auth.ret,
                         !.raised = r.auth.raised, !.ops = r.auth.ops, !.pam = r.pam,
                         !.exception = r.exception]
          /\ UNCHANGED <<config, now, sync_vars>>

\* The values an item of the PAM handle can have.
Authtoks == PasswordInputs \cup {None}

\* The host calls pam_sm_chauthtok with its flags.
PamSmChauthtokCall ==
    /\ last = NoCall
    /\ \E username \in UserInputs, flags \in Flags, fault \in Faults :
       \E oldauthtok \in (IF PAM_UPDATE_AUTHTOK \in flags /\ PAM_PRELIM_CHECK \notin flags
                             /\ fault = None
                          THEN Authtoks ELSE {None}) :
       \E authtok \in (IF fault = None THEN Authtoks ELSE {None}) :
       \E prompted \in (IF authtok = None /\ fault = None
                        THEN PasswordInputs ELSE {""}) :
       \E confirmed \in (IF authtok = None /\ PAM_UPDATE_AUTHTOK \in flags
                            /\ PAM_PRELIM_CHECK \notin flags /\ fault = None
                         THEN BOOLEAN ELSE {TRUE}) :
       \E response \in OldPasswordResponseDraws(hasattr("authenticate")
                                                /\ nextcloud_url # None) :
       \E salt \in SaltDraws(IsOk(response) /\ enable_cache) :
       \E put_response \in PutResponseDraws(hasattr("change_password")
                                            /\ nextcloud_url # None) :
       \E body \in (IF IsOk(put_response) THEN PutBodies ELSE {NoBody}) :
       \E new_salt \in SaltDraws(IsOk(put_response) /\ enable_cache) :
          LET r == pam_sm_chauthtok(cache, username, flags, oldauthtok, authtok,
                                    prompted, confirmed, response, salt,
                                    put_response, new_salt, now, fault)
          IN
          /\ cache' = r.cache
          /\ last' = [NoCall EXCEPT !.verb = "pam_sm_chauthtok",
                         !.username = username, !.flags = flags,
                         !.password = r.old_password,
                         !.new_password = r.new_password,
                         !.response = IF r.auth.requested THEN response ELSE NoResponse,
                         !.requested = r.auth.requested,
                         !.put_response = IF r.put_sent THEN put_response
                                          ELSE NoResponse,
                         !.body = IF r.put_sent THEN body ELSE NoBody,
                         !.put_sent = r.put_sent,
                         !.ret = r.auth.ret, !.raised = r.auth.raised,
                         !.ops = r.auth.ops, !.commit_ops = r.commit_ops,
                         !.pam = r.pam, !.exception = r.exception]
          /\ UNCHANGED <<config, now, sync_vars>>

Authenticate == AuthenticateCall /\ UNCHANGED history
ChangePassword == ChangePasswordCall /\ UNCHANGED history
PamSmAuthenticate == PamSmAuthenticateCall /\ UNCHANGED history
PamSmChauthtok == PamSmChauthtokCall /\ UNCHANGED history

\* The host calls pam_sm_open_session.
PamSmOpenSession ==
    /\ last = NoCall
    /\ \E username \in UserInputs, settings \in SessionSettings,
          password \in {None, "pw1"}, captured \in BOOLEAN, fault \in SessionFaults :
          LET r == pam_sm_open_session(username, settings, password, captured, fault) IN
          last' = [NoCall EXCEPT !.verb = "pam_sm_open_session",
                      !.username = username, !.pam = r.pam,
                      !.exception = r.exception, !.steps = r.steps]
    /\ UNCHANGED <<config, cache, now, history, sync_vars>>

\* The host calls pam_sm_close_session.
PamSmCloseSession ==
    /\ last = NoCall
    /\ \E username \in UserInputs :
          last' = [NoCall EXCEPT !.verb = "pam_sm_close_session",
                      !.username = username, !.pam = pam_sm_close_session.pam,
                      !.exception = pam_sm_close_session.exception,
                      !.steps = pam_sm_close_session.steps]
    /\ UNCHANGED <<config, cache, now, history, sync_vars>>

\* The caller takes the value returned; the next call can begin.
Return ==
    /\ last # NoCall
    /\ last' = NoCall
    /\ UNCHANGED <<config, cache, now, history, sync_vars>>

\* A day passes.
Tick ==
    /\ last = NoCall
    /\ now < MaxTime * DaySeconds
    /\ now' = now + DaySeconds
    /\ UNCHANGED <<config, cache, last, history, sync_vars>>

\* The process is killed while _cache_password writes the file: open(.., 'w')
\* has truncated it and json.dump has not completed.
KilledDuringCacheWrite ==
    \E username \in Users :
        /\ last = NoCall
        /\ nextcloud_url # None
        /\ enable_cache
        /\ cache' = [cache EXCEPT ![_get_cache_file_path(username)] = Corrupt]
        /\ UNCHANGED <<config, now, last, history, sync_vars>>

\* A cache file is made unreadable, or replaced by one without a field.
TamperCacheFile ==
    \E f \in CachePaths, broken \in {Unreadable, Partial} :
        /\ last = NoCall
        /\ nextcloud_url # None
        /\ enable_cache
        /\ cache[f].kind = "json"
        /\ cache' = [cache EXCEPT ![f] = broken]
        /\ UNCHANGED <<config, now, last, history, sync_vars>>

\* A cache file is put in the place of another user's (the substitution the
\* username check of _validate_cached_password is there for).
SubstituteCacheFile ==
    \E from \in CachePaths, to \in CachePaths :
        /\ last = NoCall
        /\ from # to
        /\ cache[from].kind = "json"
        /\ cache' = [cache EXCEPT ![to] = cache[from]]
        /\ UNCHANGED <<config, now, last, history, sync_vars>>

Next ==
    \/ Authenticate
    \/ ChangePassword
    \/ PamSmAuthenticate
    \/ PamSmChauthtok
    \/ Return
    \/ Tick
    \/ KilledDuringCacheWrite
    \/ TamperCacheFile
    \/ SubstituteCacheFile

Spec == Init /\ [][Next]_vars

\* A login: authentication, then the session opened and closed.
NextSession ==
    \/ Authenticate
    \/ PamSmAuthenticate
    \/ PamSmOpenSession
    \/ PamSmCloseSession
    \/ Return

SpecSession == Init /\ [][NextSession]_vars

----------------------------------------------------------------------------
(* The same calls with the remote's verdicts on one pair recorded.  The pair *)
(* is any one of the pairs, fixed at the start, so what holds of it holds of *)
(* every pair.  Time stands still here: every entry is within its expiry.    *)

Pairs == Users \X Passwords

\* The verdicts a call obtained from the remote on a pair.
VerifyAccepted(call, pair) ==
    /\ call.requested
    /\ call.response = HttpResponse(200)
    /\ <<call.username, call.password>> = pair
VerifyRejected(call, pair) ==
    /\ call.requested
    /\ call.response = HttpResponse(401)
    /\ <<call.username, call.password>> = pair
ChangeConfirmed(call, pair) ==
    /\ call.put_sent
    /\ call.put_response = HttpResponse(200)
    /\ OcsStatusOk(call.body)
    /\ <<call.username, call.new_password>> = pair

RecordHistory ==
    /\ watched' = watched
    /\ accepted' = (accepted \/ VerifyAccepted(last', watched)
                             \/ ChangeConfirmed(last', watched))
    /\ rejected' = ((rejected \/ VerifyRejected(last', watched))
                    /\ ~VerifyAccepted(last', watched)
                    /\ ~ChangeConfirmed(last', watched))

InitHistory ==
    /\ InitHandle
    /\ watched \in Pairs
    /\ accepted = FALSE
    /\ rejected = FALSE

AuthenticateRecorded == AuthenticateCall /\ RecordHistory
ChangePasswordRecorded == ChangePasswordCall /\ RecordHistory

NextHistory ==
    \/ AuthenticateRecorded
    \/ ChangePasswordRecorded
    \/ Return

SpecHistory == InitHistory /\ [][NextHistory]_vars

----------------------------------------------------------------------------
(* Group synchronization: src/pam_nextcloud_groups.py.  A name is a string,  *)
(* written as the tuple of its characters, so that lower(), strip(),         *)
(* split() and sorted() do to it what they do in Python.                     *)

sudo == <<"s", "u", "d", "o">>
wheel == <<"w", "h", "e", "e", "l">>
admin == <<"a", "d", "m", "i", "n">>
admins == <<"a", "d", "m", "i", "n", "s">>
administrators == <<"a", "d", "m", "i", "n", "i", "s", "t", "r", "a", "t", "o", "r", "s">>
Admins == <<"A", "d", "m", "i", "n", "s">>
devs == <<"d", "e", "v", "s">>
Devs == <<"D", "e", "v", "s">>
ops == <<"o", "p", "s">>
nc_ == <<"n", "c", "_">>

\* str.isalnum, str.lower, str.strip, str.startswith and str.split, on the
\* characters of the names above and of the short names below.
isalnum(c) == c \in {"A", "D", "a", "b", "c", "d", "e", "h", "i", "l", "m", "n", "o", "p", "r", "s", "t", "u", "v", "w"}
lower(s) == [i \in 1..Len(s) |-> CASE s[i] = "A" -> "a" [] s[i] = "D" -> "d" [] OTHER -> s[i]]
RECURSIVE lstrip(_, _)
lstrip(s, chars) == IF s # <<>> /\ Head(s) \in chars THEN lstrip(Tail(s), chars) ELSE s
RECURSIVE rstrip(_, _)
rstrip(s, chars) == IF s # <<>> /\ s[Len(s)] \in chars THEN rstrip(SubSeq(s, 1, Len(s) - 1), chars) ELSE s
strip(s, chars) == rstrip(lstrip(s, chars), chars)
startswith(s, prefix) == Len(prefix) <= Len(s) /\ SubSeq(s, 1, Len(prefix)) = prefix
RECURSIVE split(_, _)
split(s, sep) ==
    IF \E i \in 1..Len(s) : s[i] = sep
    THEN LET i == CHOOSE k \in 1..Len(s) :
                      s[k] = sep /\ \A j \in 1..(k - 1) : s[j] # sep
         IN  <<SubSeq(s, 1, i - 1)>> \o split(SubSeq(s, i + 1, Len(s)), sep)
    ELSE <<s>>

\* The [group_mapping] sections a file may hold: lines "key = value".
MappingLines ==
    { <<>>,
      << <<Devs, ops>> >>,
      << <<devs, devs \o <<",", " ">> \o ops>> >>,
      << <<admins, ops>> >>,
      << <<devs, <<>>>> >>,
      << <<Devs, ops>>, <<devs, devs>> >> }

\* The configuration files: none, or one with or without the two sections.
GroupConfFiles ==
    {NoGroupConf}
    \cup { [exists |-> TRUE, has_group_mapping |-> lines # <<>>, group_mapping |-> lines,
            has_group_sync |-> FALSE, prefix |-> <<>>,
            enable_sudo_mapping |-> FALSE, create_missing_groups |-> TRUE] :
           lines \in MappingLines }
    \cup { [exists |-> TRUE, has_group_mapping |-> lines # <<>>, group_mapping |-> lines,
            has_group_sync |-> TRUE, prefix |-> p,
            enable_sudo_mapping |-> s, create_missing_groups |-> c] :
           lines \in MappingLines, p \in {<<>>, nc_}, s \in BOOLEAN, c \in BOOLEAN }

\* configparser keeps option names in lower case (optionxform), and refuses a
\* section that holds the same option twice: config.read raises, and
\* load_config's handler leaves the object as __init__ made it.
optionxform(key) == lower(key)
DuplicateOption(lines) ==
    \E i, j \in 1..Len(lines) : i < j /\ optionxform(lines[i][1]) = optionxform(lines[j][1])

GroupSync_load_config(cf) ==
    IF ~cf.exists \/ DuplicateOption(cf.group_mapping)
    THEN GroupSync_init
    ELSE [group_mapping |->
              IF cf.has_group_mapping
              THEN [key \in {optionxform(cf.group_mapping[i][1]) : i \in 1..Len(cf.group_mapping)} |->
                       LET i == CHOOSE k \in 1..Len(cf.group_mapping) :
                                    optionxform(cf.group_mapping[k][1]) = key
                           linux_groups == split(cf.group_mapping[i][2], ",")
                       IN  [n \in 1..Len(linux_groups) |-> strip(linux_groups[n], {" "})]]
              ELSE GroupSync_init.group_mapping,
          managed_groups_prefix |->
              IF cf.has_group_sync THEN cf.prefix ELSE GroupSync_init.managed_groups_prefix,
          enable_sudo_mapping |->
              IF cf.has_group_sync THEN cf.enable_sudo_mapping ELSE GroupSync_init.enable_sudo_mapping,
          create_missing_groups |->
              IF cf.has_group_sync THEN cf.create_missing_groups ELSE GroupSync_init.create_missing_groups]

\* grp.getgrnam(groupname) finds the group.
_group_exists(g, groupname) == groupname \in DOMAIN g

_normalize_group_name(gs, nextcloud_group) ==
    LET replaced == [i \in 1..Len(nextcloud_group) |->
                        IF isalnum(nextcloud_group[i]) \/ nextcloud_group[i] \in {"-", "_"}
                        THEN nextcloud_group[i] ELSE "_"]
        normalized == strip(lower(replaced), {"_"})
    IN  IF gs.managed_groups_prefix # <<>> /\ ~startswith(normalized, gs.managed_groups_prefix)
        THEN gs.managed_groups_prefix \o normalized
        ELSE normalized

\* A faulty variant: no candidate when none of the administrators' groups exists.
_get_mapped_groups_without_fallthrough(gs, g, nextcloud_group) ==
    IF nextcloud_group \in DOMAIN gs.group_mapping
    THEN gs.group_mapping[nextcloud_group]
    ELSE IF gs.enable_sudo_mapping /\ lower(nextcloud_group) \in {admin, admins, administrators}
         THEN IF _group_exists(g, sudo) THEN <<sudo>>
              ELSE IF _group_exists(g, wheel) THEN <<wheel>>
              ELSE IF _group_exists(g, admin) THEN <<admin>>
              ELSE <<>>
         ELSE <<_normalize_group_name(gs, nextcloud_group)>>

_get_mapped_groups(gs, g, nextcloud_group) ==
    IF nextcloud_group \in DOMAIN gs.group_mapping
    THEN gs.group_mapping[nextcloud_group]
    ELSE IF /\ gs.enable_sudo_mapping
            /\ lower(nextcloud_group) \in {admin, admins, administrators}
            /\ \E a \in {sudo, wheel, admin} : _group_exists(g, a)
         THEN IF _group_exists(g, sudo) THEN <<sudo>>
              ELSE IF _group_exists(g, wheel) THEN <<wheel>>
              ELSE <<admin>>
         ELSE <<_normalize_group_name(gs, nextcloud_group)>>

\* The module at rest while the tools are followed.
HandleAtRest ==
    /\ nextcloud_url = Url
    /\ enable_cache = TRUE
    /\ cache_expiry_days = 0
    /\ cache = [f \in CachePaths |-> NoFile]
    /\ now = 0
    /\ last = NoCall
    /\ watched = NoPair
    /\ accepted = FALSE
    /\ rejected = FALSE

engine_vars == <<config, cache, now, last, history>>

----------------------------------------------------------------------------
(* Mapping resolution on its own: any configuration file, any set of local  *)
(* groups, any remote group name.                                           *)

MaxNameLen == 2
ShortNameChars == {"a", "A", "_", "!"}
RECURSIVE NamesUpTo(_)
NamesUpTo(n) ==
    IF n = 0 THEN {<<>>}
    ELSE NamesUpTo(n - 1) \cup {Append(s, c) : s \in NamesUpTo(n - 1), c \in ShortNameChars}
RemoteNames ==
    {admin, admins, administrators, Admins, devs, Devs, ops} \cup (NamesUpTo(MaxNameLen) \ {<<>>})
SystemGroupNames == {sudo, wheel, admin, devs}

InitMapping ==
    /\ HandleAtRest
    /\ group_conf \in GroupConfFiles
    /\ group_sync = GroupSync_load_config(group_conf)
    /\ passwd = {}
    /\ \E names \in SUBSET SystemGroupNames : group = [n \in names |-> {}]
    /\ nextcloud = <<>>
    /\ shadow = {}
    /\ etc_files = NoFiles
    /\ run = NoRun
    /\ prev = NoRun

\* group_sync._get_mapped_groups(nextcloud_group)
GetMappedGroupsOf(nextcloud_group) ==
    /\ run' = [NoRun EXCEPT !.tool = "_get_mapped_groups",
                            !.nc_group = nextcloud_group,
                            !.mapped = _get_mapped_groups(group_sync, group, nextcloud_group)]
    /\ UNCHANGED <<engine_vars, group_conf, group_sync, passwd, group, nextcloud, shadow, etc_files>>

\* A first call, and the same call once more on the same object.
GetMappedGroups ==
    /\ run = NoRun
    /\ \E nextcloud_group \in RemoteNames : GetMappedGroupsOf(nextcloud_group)
    /\ prev' = prev
GetMappedGroupsAgain ==
    /\ run # NoRun /\ prev = NoRun
    /\ GetMappedGroupsOf(run.nc_group)
    /\ prev' = run

NextMapping == GetMappedGroups \/ GetMappedGroupsAgain

SpecMapping == InitMapping /\ [][NextMapping]_vars

----------------------------------------------------------------------------
(* The local account tools behind subprocess.run, and GroupSync.sync_groups. *)

alice == <<"a", "l", "i", "c", "e">>
bob == <<"b", "o", "b">>
SyncUsers == {alice, bob}
LinuxGroupNames == {devs, ops}

\* The commands the tools run, by what they are asked to do.
Command(cmd, username, groupname) == [cmd |-> cmd, user |-> username, group |-> groupname]
Commands ==
    {Command("groupadd", <<>>, g) : g \in LinuxGroupNames}
    \cup {Command(c, u, g) : c \in {"gpasswd -a", "gpasswd -d"}, u \in SyncUsers, g \in LinuxGroupNames}
    \cup {Command(c, u, <<>>) : c \in {"useradd", "passwd -l", "usermod -L"}, u \in SyncUsers}

\* At most MaxFaults of the commands and requests of a run fail for a reason of
\* their own (returncode # 0, a timeout, the remote not answering).
MaxFaults == 1
FaultsAmong(things) == {f \in SUBSET things : Cardinality(f) <= MaxFaults}

\* returncode == 0: the command is not made to fail and can do what it is asked.
returncode_0(c, g, pw, faults) ==
    /\ c \notin faults
    /\ CASE c.cmd = "groupadd" -> c.group # <<>> /\ c.group \notin DOMAIN g
         [] c.cmd = "gpasswd -a" -> c.user \in pw /\ c.group \in DOMAIN g
         [] c.cmd = "gpasswd -d" -> c.group \in DOMAIN g /\ c.user \in g[c.group]
         [] c.cmd = "useradd" -> c.user \notin pw
         [] c.cmd \in {"passwd -l", "usermod -L"} -> c.user \in pw

\* /etc/group after the command has succeeded.
etc_group(c, g) ==
    CASE c.cmd = "groupadd" -> [n \in DOMAIN g \cup {c.group} |-> IF n \in DOMAIN g THEN g[n] ELSE {}]
      [] c.cmd = "gpasswd -a" -> [g EXCEPT ![c.group] = @ \cup {c.user}]
      [] c.cmd = "gpasswd -d" -> [g EXCEPT ![c.group] = @ \ {c.user}]
      [] OTHER -> g

_user_in_group(g, username, groupname) == groupname \in DOMAIN g /\ username \in g[groupname]
_create_group(g, pw, groupname, faults) == returncode_0(Command("groupadd", <<>>, groupname), g, pw, faults)
_add_user_to_group(g, pw, username, groupname, faults) == returncode_0(Command("gpasswd -a", username, groupname), g, pw, faults)

\* What one pass of a loop adds to the record of a run.
Pass(st, g, failed, cmds, entry) ==
    [group |-> g, success |-> st.success /\ ~failed, ops |-> st.ops \o cmds, trace |-> Append(st.trace, entry)]
Op(c, ok) == [cmd |-> c, ok |-> ok]

\* A faulty variant of the loop body below: the user is added without looking
\* whether the user is a member already.
sync_linux_group_without_member_check(gs, pw, st, username, linux_group, faults) ==
    LET g == st.group
        create == Command("groupadd", <<>>, linux_group)
        add == Command("gpasswd -a", username, linux_group)
        entry == [linux_group |-> linux_group, username |-> username,
                  was_member |-> _user_in_group(g, username, linux_group),
                  existed |-> _group_exists(g, linux_group)]
    IN  IF ~_group_exists(g, linux_group) /\ ~gs.create_missing_groups
        THEN Pass(st, g, FALSE, <<>>, entry @@ [cmds |-> <<>>, failed |-> FALSE])
        ELSE IF ~_group_exists(g, linux_group) /\ ~_create_group(g, pw, linux_group, faults)
        THEN Pass(st, g, TRUE, <<Op(create, FALSE)>>, entry @@ [cmds |-> <<Op(create, FALSE)>>, failed |-> TRUE])
        ELSE LET g1 == IF _group_exists(g, linux_group) THEN g ELSE etc_group(create, g)
                 created == IF _group_exists(g, linux_group) THEN <<>> ELSE <<Op(create, TRUE)>>
                 added == _add_user_to_group(g1, pw, username, linux_group, faults)
                 cmds == created \o <<Op(add, added)>>
             IN  Pass(st, IF added THEN etc_group(add, g1) ELSE g1, ~added, cmds,
                      entry @@ [cmds |-> cmds, failed |-> ~added])

\* sync_groups, the body of "for linux_group in linux_groups" (232-257).
sync_linux_group(gs, pw, st, username, linux_group, faults) ==
    LET g == st.group
        create == Command("groupadd", <<>>, linux_group)
        add == Command("gpasswd -a", username, linux_group)
        entry == [linux_group |-> linux_group, username |-> username,
                  was_member |-> _user_in_group(g, username, linux_group),
                  existed |-> _group_exists(g, linux_group)]
    IN  IF _user_in_group(g, username, linux_group)
        THEN Pass(st, g, FALSE, <<>>, entry @@ [cmds |-> <<>>, failed |-> FALSE])
        ELSE IF ~_group_exists(g, linux_group) /\ ~gs.create_missing_groups
        THEN Pass(st, g, FALSE, <<>>, entry @@ [cmds |-> <<>>, failed |-> FALSE])
        ELSE IF ~_group_exists(g, linux_group) /\ ~_create_group(g, pw, linux_group, faults)
        THEN Pass(st, g, TRUE, <<Op(create, FALSE)>>, entry @@ [cmds |-> <<Op(create, FALSE)>>, failed |-> TRUE])
        ELSE LET g1 == IF _group_exists(g, linux_group) THEN g ELSE etc_group(create, g)
                 created == IF _group_exists(g, linux_group) THEN <<>> ELSE <<Op(create, TRUE)>>
                 added == _add_user_to_group(g1, pw, username, linux_group, faults)
                 cmds == created \o <<Op(add, added)>>
             IN  Pass(st, IF added THEN etc_group(add, g1) ELSE g1, ~added, cmds,
                      entry @@ [cmds |-> cmds, failed |-> ~added])

RECURSIVE sync_linux_groups(_, _, _, _, _, _)
sync_linux_groups(gs, pw, st, username, linux_groups, faults) ==
    IF linux_groups = <<>> THEN st
    ELSE sync_linux_groups(gs, pw, sync_linux_group(gs, pw, st, username, Head(linux_groups), faults),
                           username, Tail(linux_groups), faults)

\* sync_groups, "for nc_group in nextcloud_groups" (228-230): the candidates of
\* a remote group are resolved when its turn comes.
RECURSIVE sync_nc_groups(_, _, _, _, _, _)
sync_nc_groups(gs, pw, st, username, nextcloud_groups, faults) ==
    IF nextcloud_groups = <<>> THEN st
    ELSE sync_nc_groups(gs, pw,
                        sync_linux_groups(gs, pw, st, username,
                                          _get_mapped_groups(gs, st.group, Head(nextcloud_groups)), faults),
                        username, Tail(nextcloud_groups), faults)

\* A faulty variant of sync_groups below: the user is first taken out of every
\* local group, so that only the groups of the remote list remain.
sync_groups_exact(gs, g, pw, username, nextcloud_groups, faults) ==
    sync_nc_groups(gs, pw, [group |-> [n \in DOMAIN g |-> g[n] \ {username}],
                            success |-> TRUE, ops |-> <<>>, trace |-> <<>>],
                   username, nextcloud_groups, faults)

\* sync_groups(username, nextcloud_groups): what it returns, the groups after it,
\* the commands it ran and what each pass of its inner loop found and did.
sync_groups(gs, g, pw, username, nextcloud_groups, faults) ==
    sync_nc_groups(gs, pw, [group |-> g, success |-> TRUE, ops |-> <<>>, trace |-> <<>>],
                   username, nextcloud_groups, faults)

----------------------------------------------------------------------------
(* Per-user synchronization on its own: sync_groups called on an object,    *)
(* and called once more with the same arguments.                            *)

SyncConfFiles ==
    {cf \in GroupConfFiles :
        /\ cf.prefix = <<>> /\ ~cf.enable_sudo_mapping
        /\ cf.group_mapping \in {<<>>, << <<devs, devs \o <<",", " ">> \o ops>> >>}}

\* The lists of remote groups of a user: one or two of the names, in any order.
GroupLists ==
    {<<Devs>>, <<devs>>, <<Devs, devs>>, <<devs, Devs>>}

LocalGroups == UNION {[names -> SUBSET SyncUsers] : names \in SUBSET LinuxGroupNames}

InitSyncGroups ==
    /\ HandleAtRest
    /\ group_conf \in SyncConfFiles
    /\ group_sync = GroupSync_load_config(group_conf)
    /\ passwd \in {{alice}, {alice, bob}}
    /\ group \in {g \in LocalGroups : \A n \in DOMAIN g : g[n] \subseteq passwd}
    /\ nextcloud = <<>>
    /\ shadow = {}
    /\ etc_files = NoFiles
    /\ run = NoRun
    /\ prev = NoRun

SyncGroupsOf(username, nextcloud_groups) ==
    \E faults \in FaultsAmong({c \in Commands : c.cmd \in {"groupadd", "gpasswd -a"} /\ c.user \in {<<>>, username}}) :
        LET st == sync_groups(group_sync, group, passwd, username, nextcloud_groups, faults)
        IN  /\ run' = [NoRun EXCEPT !.tool = "sync_groups", !.username = username,
                                    !.nextcloud_groups = nextcloud_groups, !.faults = faults,
                                    !.ret = st.success, !.ops = st.ops, !.trace = st.trace]
            /\ group' = st.group
            /\ UNCHANGED <<engine_vars, group_conf, group_sync, passwd, nextcloud, shadow, etc_files>>

SyncGroups ==
    /\ run = NoRun
    /\ \E username \in SyncUsers, nextcloud_groups \in GroupLists : SyncGroupsOf(username, nextcloud_groups)
    /\ prev' = prev
SyncGroupsAgain ==
    /\ run # NoRun /\ prev = NoRun
    /\ SyncGroupsOf(run.username, run.nextcloud_groups)
    /\ prev' = run

NextSyncGroups == SyncGroups \/ SyncGroupsAgain

SpecSyncGroups == InitSyncGroups /\ [][NextSyncGroups]_vars

----------------------------------------------------------------------------
(* Bulk synchronization: src/pam-nextcloud-sync.py.                          *)

\* The characters in code point order, for the comparison of strings.
CodePoints == <<" ", "!", ",", "-", "A", "D", "_", "a", "b", "c", "d", "e", "h", "i", "l", "m", "n", "o", "p", "r", "s", "t", "u", "v", "w">>
ord(c) == CHOOSE i \in 1..Len(CodePoints) : CodePoints[i] = c
RECURSIVE str_lt(_, _)
str_lt(s, t) ==
    IF t = <<>> THEN FALSE
    ELSE IF s = <<>> THEN TRUE
    ELSE IF Head(s) = Head(t) THEN str_lt(Tail(s), Tail(t))
    ELSE ord(Head(s)) < ord(Head(t))
RECURSIVE sorted(_)
sorted(S) ==
    IF S = {} THEN <<>>
    ELSE LET first == CHOOSE x \in S : \A y \in S \ {x} : str_lt(x, y)
         IN  <<first>> \o sorted(S \ {first})

\* "for username in <a set of str>": the order follows the hashes of the
\* strings, which Python draws anew for every process; any order can come out.
Orders == {<<alice, bob>>, <<bob, alice>>}
Iterate(S, order) == LET in_S(u) == u \in S IN SelectSeq(order, in_S)

\* The requests to the remote; one of them may fail as a command may.
GetGroups == Command("GET groups", <<>>, <<>>)
GetGroupUsers(group_name) == Command("GET groups/users", <<>>, group_name)
GetUserGroups(username) == Command("GET users/groups", username, <<>>)
\* The ways the request for the members of a group fails: a status other than
\* 200 (GetGroupUsers in faults), a body that is neither JSON nor XML, and
\* requests.get raising.  The same for the request for all users.
Undecodable(group_name) == Command("GET groups/users: undecodable", <<>>, group_name)
ConnectionError(group_name) == Command("GET groups/users: ConnectionError", <<>>, group_name)
GroupUsersFail(group_name, faults) == faults \cap {GetGroupUsers(group_name), Undecodable(group_name), ConnectionError(group_name)} # {}
GetUsers == Command("GET users", <<>>, <<>>)
UsersUndecodable == Command("GET users: undecodable", <<>>, <<>>)
UsersConnectionError == Command("GET users: ConnectionError", <<>>, <<>>)
\* subprocess.run(['gpasswd', '-d', ...]) itself raising OSError.
RaisesOSError(username, groupname) == Command("gpasswd -d: OSError", username, groupname)

\* A transport error, a status other than 200 and a body that cannot be parsed
\* all end in "return []".
get_all_nextcloud_groups(remote, faults) == IF GetGroups \in faults THEN {} ELSE DOMAIN remote
get_group_members(remote, group_name, faults) ==
    IF GroupUsersFail(group_name, faults) \/ group_name \notin DOMAIN remote THEN {} ELSE remote[group_name]
get_user_groups(remote, username, faults) ==
    IF GetUserGroups(username) \in faults THEN <<>> ELSE sorted({n \in DOMAIN remote : username \in remote[n]})
get_local_group_members(g, group_name) == IF group_name \in DOMAIN g THEN g[group_name] ELSE {}
user_exists(pw, username) == username \in pw

\* What a pass of the add or remove loop adds to the record of the run.
Did(ctx, username, action, ok) ==
    [nc_group |-> ctx.nc_group, linux_group |-> ctx.linux_group, username |-> username,
     action |-> action, ok |-> ok,
     local_members |-> ctx.local_members, nextcloud_members |-> ctx.nextcloud_members]

\* "for username in users_to_add" (554-563, and 954-960 of main).
RECURSIVE add_users(_, _, _, _, _)
add_users(pw, st, ctx, users_to_add, faults) ==
    IF users_to_add = <<>> THEN st
    ELSE LET username == Head(users_to_add)
             add == Command("gpasswd -a", username, ctx.linux_group)
             ok == _add_user_to_group(st.group, pw, username, ctx.linux_group, faults)
         IN  IF ~user_exists(pw, username)
             THEN add_users(pw, [st EXCEPT !.trace = Append(@, Did(ctx, username, "skip", TRUE))],
                            ctx, Tail(users_to_add), faults)
             ELSE add_users(pw, [st EXCEPT !.group = IF ok THEN etc_group(add, @) ELSE @,
                                           !.ops = Append(@, Op(add, ok)),
                                           !.trace = Append(@, Did(ctx, username, "add", ok))],
                            ctx, Tail(users_to_add), faults)

\* "for username in users_to_remove" (566-581, and 963-976 of main): the
\* command is run outside any try, so an OSError leaves the loop and main.
RECURSIVE remove_users(_, _, _, _, _)
remove_users(pw, st, ctx, users_to_remove, faults) ==
    IF users_to_remove = <<>> THEN st
    ELSE LET username == Head(users_to_remove)
             remove == Command("gpasswd -d", username, ctx.linux_group)
             ok == returncode_0(remove, st.group, pw, faults)
         IN  IF ~user_exists(pw, username)
             THEN remove_users(pw, [st EXCEPT !.trace = Append(@, Did(ctx, username, "skip", TRUE))],
                               ctx, Tail(users_to_remove), faults)
             ELSE IF RaisesOSError(username, ctx.linux_group) \in faults
             THEN [st EXCEPT !.raised = TRUE,
                             !.left = @ \cup {<<ctx.linux_group, u>> : u \in {users_to_remove[i] : i \in 2..Len(users_to_remove)}}]
             ELSE remove_users(pw, [st EXCEPT !.group = IF ok THEN etc_group(remove, @) ELSE @,
                                              !.ops = Append(@, Op(remove, ok)),
                                              !.trace = Append(@, Did(ctx, username, "remove", ok))],
                               ctx, Tail(users_to_remove), faults)

\* sync_group_membership, "for linux_group in linux_groups" (539-581).
RECURSIVE sync_mapped_groups(_, _, _, _, _, _, _)
sync_mapped_groups(pw, st, group_name, linux_groups, nextcloud_members, faults, order) ==
    IF linux_groups = <<>> THEN st
    ELSE IF st.raised
    THEN [st EXCEPT !.left = @ \cup {<<linux_groups[i], <<>>>> : i \in 1..Len(linux_groups)}]
    ELSE LET linux_group == Head(linux_groups)
             local_members == get_local_group_members(st.group, linux_group)
             ctx == [nc_group |-> group_name, linux_group |-> linux_group,
                     local_members |-> local_members, nextcloud_members |-> nextcloud_members]
             users_to_add == nextcloud_members \ local_members
             users_to_remove == local_members \ nextcloud_members
         IN  IF ~_group_exists(st.group, linux_group)
             THEN sync_mapped_groups(pw, st, group_name, Tail(linux_groups), nextcloud_members, faults, order)
             ELSE sync_mapped_groups(pw,
                      remove_users(pw, add_users(pw, st, ctx, Iterate(users_to_add, order), faults),
                                   ctx, Iterate(users_to_remove, order), faults),
                      group_name, Tail(linux_groups), nextcloud_members, faults, order)

sync_group_membership(gs, pw, st, group_name, nextcloud_members, faults, order) ==
    LET linux_groups == _get_mapped_groups(gs, st.group, group_name)
    IN  IF linux_groups = <<>>
        THEN IF _group_exists(st.group, group_name)
             THEN sync_mapped_groups(pw, st, group_name, <<group_name>>, nextcloud_members, faults, order)
             ELSE st
        ELSE sync_mapped_groups(pw, st, group_name, linux_groups, nextcloud_members, faults, order)

\* main, "Find groups that exist on both systems" (697-707): the remote groups
\* with a candidate among the local groups.
common_groups(gs, g, nextcloud_groups) ==
    {nc_group \in nextcloud_groups :
        LET linux_groups == _get_mapped_groups(gs, g, nc_group)
        IN  \E i \in 1..Len(linux_groups) : linux_groups[i] \in DOMAIN g}

\* main, "for nc_group, linux_group in sorted(common_groups)" (717-738).
RECURSIVE sync_common_groups(_, _, _, _, _, _, _, _)
sync_common_groups(gs, pw, st, remote, nc_groups, dry_run, faults, order) ==
    IF nc_groups = <<>> THEN st
    ELSE IF st.raised
    THEN [st EXCEPT !.left = @ \cup {<<nc_groups[i], <<>>>> : i \in 1..Len(nc_groups)}]
    ELSE LET nc_group == Head(nc_groups)
             nextcloud_members == get_group_members(remote, nc_group, faults)
         IN  sync_common_groups(gs, pw,
                 IF dry_run THEN st
                 ELSE sync_group_membership(gs, pw, st, nc_group, nextcloud_members, faults, order),
                 remote, Tail(nc_groups), dry_run, faults, order)

\* The record of a run as it starts.
Started(g) == [group |-> g, ops |-> <<>>, trace |-> <<>>, raised |-> FALSE, left |-> {}]

\* main with --sync-all-groups (683-750), from the credentials on.
sync_all_groups(gs, pw, g, remote, dry_run, faults, order) ==
    LET common == common_groups(gs, g, get_all_nextcloud_groups(remote, faults))
        st == sync_common_groups(gs, pw, Started(g), remote, sorted(common), dry_run, faults, order)
    IN  IF common = {}
        THEN Started(g) @@ [exit |-> 0]
        ELSE st @@ [exit |-> IF st.raised THEN 1 ELSE 0]

----------------------------------------------------------------------------
(* Bulk synchronization run on its own, and run once more.                  *)

\* The faults of a run: a request, or a command on the first user.
BulkFaults ==
    FaultsAmong({GetGroups} \cup {GetGroupUsers(n) : n \in {Devs, devs}}
                \cup {Command(c, alice, n) : c \in {"gpasswd -a", "gpasswd -d", "gpasswd -d: OSError"}, n \in LinuxGroupNames})

BulkConfFiles ==
    {cf \in GroupConfFiles :
        /\ cf.exists /\ ~cf.has_group_sync
        /\ cf.group_mapping \in {<<>>, << <<devs, devs \o <<",", " ">> \o ops>> >>}}

InitBulk ==
    /\ HandleAtRest
    /\ group_conf \in BulkConfFiles
    /\ group_sync = GroupSync_load_config(group_conf)
    /\ passwd \in {{alice}, {alice, bob}}
    /\ group \in LocalGroups
    /\ nextcloud \in [{Devs, devs} -> SUBSET SyncUsers] \cup [{Devs} -> SUBSET SyncUsers]
    /\ shadow = {}
    /\ etc_files = NoFiles
    /\ run = NoRun
    /\ prev = NoRun

SyncAllGroupsWith(dry_run, faults, order) ==
    LET st == sync_all_groups(group_sync, passwd, group, nextcloud, dry_run, faults, order)
    IN  /\ run' = [NoRun EXCEPT !.tool = "pam-nextcloud-sync", !.mode = "sync-all-groups",
                                !.dry_run = dry_run, !.faults = faults, !.order = order,
                                !.exit = st.exit, !.ops = st.ops, !.trace = st.trace,
                                !.raised = st.raised, !.left = st.left]
        /\ group' = st.group
        /\ UNCHANGED <<engine_vars, group_conf, group_sync, passwd, nextcloud, shadow, etc_files>>

SyncAllGroups ==
    /\ run = NoRun
    /\ \E dry_run \in BOOLEAN, faults \in BulkFaults, order \in Orders :
          SyncAllGroupsWith(dry_run, faults, order)
    /\ prev' = prev
\* The same command once more: nothing fails this time.
SyncAllGroupsAgain ==
    /\ run # NoRun /\ prev = NoRun
    /\ \E order \in Orders : SyncAllGroupsWith(run.dry_run, {}, order)
    /\ prev' = run

NextBulk == SyncAllGroups \/ SyncAllGroupsAgain

SpecBulk == InitBulk /\ [][NextBulk]_vars

----------------------------------------------------------------------------
(* The two command-line tools as a whole: src/pam-nextcloud-sync.py and      *)
(* src/provision-nextcloud-users.py.                                         *)

\* What a tool meets before its work starts.  GroupSync is importable.
Setups == {"ok", "not root", "no config", "no admin user", "no admin password", "KeyboardInterrupt"}

\* configure_gdm_user_list: the two dconf files are written when dconf is installed.
configure_gdm_user_list(files, dconf) == IF dconf THEN [files EXCEPT !.gdm = TRUE] ELSE files
ensure_accounts_service_entry(files, username) == [files EXCEPT !.accounts = @ \cup {username}]

\* The record of a run of a tool as it starts: the local state it works on.
StartedOn(pw, g, sh, files) ==
    Started(g) @@ [passwd |-> pw, shadow |-> sh, etc_files |-> files,
                   created_count |-> 0, failed_count |-> 0, requests |-> {}]
Exit(st, code) == st @@ [exit |-> code]

\* lock_local_password: passwd -l, and usermod -L when that fails.
lock_local_password(st, username, faults) ==
    LET lock == Command("passwd -l", username, <<>>)
        usermod == Command("usermod -L", username, <<>>)
        ok == returncode_0(lock, st.group, st.passwd, faults)
        ok2 == returncode_0(usermod, st.group, st.passwd, faults)
    IN  [st EXCEPT !.shadow = IF ok \/ ok2 THEN @ \cup {username} ELSE @,
                   !.ops = @ \o (IF ok THEN <<Op(lock, TRUE)>> ELSE <<Op(lock, FALSE), Op(usermod, ok2)>>)]

\* create_user of pam-nextcloud-sync.py, for a user that does not exist.
create_user(st, username, faults) ==
    LET useradd == Command("useradd", username, <<>>)
        ok == returncode_0(useradd, st.group, st.passwd, faults)
    IN  [st EXCEPT !.passwd = IF ok THEN @ \cup {username} ELSE @,
                   !.etc_files = IF ok THEN ensure_accounts_service_entry(@, username) ELSE @,
                   !.ops = Append(@, Op(useradd, ok)),
                   !.created_count = IF ok THEN @ + 1 ELSE @,
                   !.failed_count = IF ok THEN @ ELSE @ + 1]

\* main, "for username in sorted(group_members)" (813-849).
RECURSIVE provision_users(_, _, _, _)
provision_users(st, group_members, dry_run, faults) ==
    IF group_members = <<>> THEN st
    ELSE LET username == Head(group_members)
         IN  provision_users(
                 IF user_exists(st.passwd, username)
                 THEN IF dry_run THEN st
                      ELSE LET locked == lock_local_password(st, username, faults)
                           IN  [locked EXCEPT !.etc_files = ensure_accounts_service_entry(@, username)]
                 ELSE IF dry_run THEN [st EXCEPT !.created_count = @ + 1]
                      ELSE create_user(st, username, faults),
                 Tail(group_members), dry_run, faults)

\* main, "for nc_group, linux_group in sorted(common_groups)" (925-982).
RECURSIVE sync_common_pairs(_, _, _, _, _, _, _)
sync_common_pairs(gs, st, remote, nc_groups, dry_run, faults, order) ==
    IF nc_groups = <<>> THEN st
    ELSE IF st.raised
    THEN [st EXCEPT !.left = @ \cup {<<nc_groups[i], <<>>>> : i \in 1..Len(nc_groups)}]
    ELSE LET nc_group == Head(nc_groups)
             mapped == _get_mapped_groups(gs, st.group, nc_group)
             linux_group == mapped[CHOOSE i \in 1..Len(mapped) :
                                      /\ mapped[i] \in DOMAIN st.group
                                      /\ \A j \in 1..(i - 1) : mapped[j] \notin DOMAIN st.group]
             nextcloud_members == get_group_members(remote, nc_group, faults)
             local_members == get_local_group_members(st.group, linux_group)
             nextcloud_members_local == {u \in nextcloud_members : user_exists(st.passwd, u)}
             users_to_add == nextcloud_members_local \ local_members
             users_to_remove == local_members \cap ({u \in local_members : user_exists(st.passwd, u)} \ nextcloud_members_local)
             ctx == [nc_group |-> nc_group, linux_group |-> linux_group,
                     local_members |-> local_members, nextcloud_members |-> nextcloud_members]
         IN  sync_common_pairs(gs,
                 IF dry_run THEN st
                 ELSE remove_users(st.passwd,
                                   add_users(st.passwd, st, ctx, Iterate(users_to_add, order), faults),
                                   ctx, Iterate(users_to_remove, order), faults),
                 remote, Tail(nc_groups), dry_run, faults, order)

\* main without --sync-all-groups and --user (779-1014): the members of a
\* remote group are given local accounts, then all common groups are synced.
provision_and_sync(gs, st, remote, group_name, dry_run, faults, order) ==
    LET group_members == get_group_members(remote, group_name, faults)
        provisioned == provision_users([st EXCEPT !.requests = {GetGroupUsers(group_name)}],
                                       sorted(group_members), dry_run, faults)
        common == common_groups(gs, provisioned.group, get_all_nextcloud_groups(remote, faults))
        asked == [provisioned EXCEPT !.requests = @ \cup {GetGroups} \cup {GetGroupUsers(n) : n \in common}]
        synced == sync_common_pairs(gs, asked, remote, sorted(common), dry_run, faults, order)
    IN  IF group_name = <<>> THEN Exit(st, 1)
        ELSE IF group_members = {} THEN Exit([st EXCEPT !.requests = {GetGroupUsers(group_name)}], 0)
        ELSE IF dry_run /\ provisioned.created_count > 0 THEN Exit(provisioned, 0)
        ELSE IF common = {}
        THEN Exit([provisioned EXCEPT !.requests = @ \cup {GetGroups}],
                  IF provisioned.failed_count = 0 THEN 0 ELSE 1)
        ELSE Exit(synced, IF synced.raised \/ synced.failed_count # 0 THEN 1 ELSE 0)

\* main with --user (752-777).
sync_user(gs, st, remote, username, dry_run, faults) ==
    LET user_groups == get_user_groups(remote, username, faults)
        asked == [st EXCEPT !.requests = {GetUserGroups(username)}]
        synced == sync_groups(gs, st.group, st.passwd, username, user_groups, faults)
    IN  IF ~user_exists(st.passwd, username) THEN Exit(st, 1)
        ELSE IF user_groups = <<>> THEN Exit(asked, 0)
        ELSE IF dry_run THEN Exit(asked, 0)
        ELSE Exit([asked EXCEPT !.group = synced.group, !.ops = synced.ops], 0)

\* pam-nextcloud-sync: main (586-1014) under "if __name__ == '__main__'" (1017-1028).
pam_nextcloud_sync(gs, st, remote, a, setup, dconf, faults, order) ==
    LET configured == [st EXCEPT !.etc_files = configure_gdm_user_list(@, dconf)]
        all == sync_all_groups(gs, st.passwd, st.group, remote, a.dry_run, faults, order)
        asked == {GetGroups} \cup {GetGroupUsers(n) : n \in common_groups(gs, st.group, get_all_nextcloud_groups(remote, faults))}
    IN  IF setup \in {"not root", "no config"} THEN Exit(st, 1)
        ELSE IF setup \in {"no admin user", "no admin password"} THEN Exit(configured, 1)
        ELSE IF setup = "KeyboardInterrupt" THEN Exit(configured, 130)
        ELSE IF a.mode = "sync-all-groups"
        THEN [configured EXCEPT !.group = all.group, !.ops = all.ops, !.trace = all.trace,
                                !.raised = all.raised, !.left = all.left, !.requests = asked]
             @@ [exit |-> all.exit]
        ELSE IF a.mode = "user"
        THEN sync_user(gs, configured, remote, a.user, a.dry_run, faults)
        ELSE provision_and_sync(gs, configured, remote, a.group, a.dry_run, faults, order)

\* get_group_members of provision-nextcloud-users.py (67-207): None when a
\* request raises; when the answer is not 200 or cannot be parsed, all users are
\* listed and each is asked for its groups; None when that list is refused, and
\* no user when it cannot be parsed.
provision_get_group_members(remote, group_name, faults) ==
    IF ConnectionError(group_name) \in faults THEN [ok |-> FALSE, members |-> {}]
    ELSE IF ~GroupUsersFail(group_name, faults) /\ group_name \in DOMAIN remote
    THEN [ok |-> TRUE, members |-> remote[group_name]]
    ELSE IF GetUsers \in faults \/ UsersConnectionError \in faults THEN [ok |-> FALSE, members |-> {}]
    ELSE IF UsersUndecodable \in faults THEN [ok |-> TRUE, members |-> {}]
    ELSE [ok |-> TRUE,
          members |-> {u \in UNION {remote[n] : n \in DOMAIN remote} :
                          \E i \in 1..Len(get_user_groups(remote, u, faults)) :
                              get_user_groups(remote, u, faults)[i] = group_name}]

\* create_user of provision-nextcloud-users.py, for a user that does not exist.
provision_create_user(st, username, faults) ==
    LET useradd == Command("useradd", username, <<>>)
        ok == returncode_0(useradd, st.group, st.passwd, faults)
    IN  [st EXCEPT !.passwd = IF ok THEN @ \cup {username} ELSE @,
                   !.ops = Append(@, Op(useradd, ok)),
                   !.created_count = IF ok THEN @ + 1 ELSE @,
                   !.failed_count = IF ok THEN @ ELSE @ + 1]

\* main of provision-nextcloud-users.py, "for username in sorted(group_members)" (427-444).
RECURSIVE provision_only(_, _, _, _)
provision_only(st, group_members, dry_run, faults) ==
    IF group_members = <<>> THEN st
    ELSE LET username == Head(group_members)
         IN  provision_only(
                 IF user_exists(st.passwd, username) THEN st
                 ELSE IF dry_run THEN [st EXCEPT !.created_count = @ + 1]
                 ELSE provision_create_user(st, username, faults),
                 Tail(group_members), dry_run, faults)

\* provision-nextcloud-users: main (326-470) under "if __name__ == '__main__'" (473-484).
provision_nextcloud_users(st, remote, a, setup, faults) ==
    LET group_members == provision_get_group_members(remote, a.group, faults)
        asked == [st EXCEPT !.requests = IF group_members.ok THEN {} ELSE {ConnectionError(a.group), GetUsers, UsersConnectionError}]
        provisioned == provision_only(asked, sorted(group_members.members), a.dry_run, faults)
    IN  IF setup = "KeyboardInterrupt" THEN Exit(st, 130)
        ELSE IF setup # "ok" \/ a.group = <<>> THEN Exit(st, 1)
        ELSE IF ~group_members.ok THEN Exit(asked, 1)
        ELSE IF group_members.members = {} THEN Exit(asked, 0)
        ELSE Exit(provisioned, IF provisioned.failed_count = 0 THEN 0 ELSE 1)

----------------------------------------------------------------------------
(* One run of a tool, with any arguments, on any local and remote state.    *)

ToolArguments ==
    {[mode |-> "sync-all-groups", dry_run |-> d, user |-> <<>>, group |-> <<>>] : d \in BOOLEAN}
    \cup {[mode |-> "user", dry_run |-> d, user |-> u, group |-> <<>>] : d \in BOOLEAN, u \in SyncUsers}
    \cup {[mode |-> "group", dry_run |-> d, user |-> <<>>, group |-> n] : d \in BOOLEAN, n \in {devs, <<>>}}

ToolFaults ==
    FaultsAmong({GetGroups, GetGroupUsers(devs), GetUserGroups(alice), GetUsers, ConnectionError(devs),
                 Command("useradd", bob, <<>>), Command("passwd -l", alice, <<>>),
                 Command("gpasswd -a", alice, devs), Command("groupadd", <<>>, devs)})

InitTools ==
    /\ HandleAtRest
    /\ group_conf \in {cf \in BulkConfFiles : cf.group_mapping = <<>>}
    /\ group_sync = GroupSync_load_config(group_conf)
    /\ passwd \in {{alice}, {alice, bob}}
    /\ group \in {g \in LocalGroups : DOMAIN g \subseteq {devs}}
    /\ nextcloud \in [{devs} -> SUBSET SyncUsers]
    /\ shadow = {}
    /\ etc_files = NoFiles
    /\ run = NoRun
    /\ prev = NoRun

\* The local state after the run, and the record of the run.
Ran(tool, a, setup, faults, order, st) ==
    /\ run' = [NoRun EXCEPT !.tool = tool, !.mode = a.mode, !.dry_run = a.dry_run,
                            !.username = a.user, !.nc_group = a.group,
                            !.setup = setup, !.faults = faults, !.order = order,
                            !.exit = st.exit, !.ops = st.ops, !.trace = st.trace,
                            !.raised = st.raised, !.left = st.left,
                            !.failed_requests = st.requests \cap faults]
    /\ passwd' = st.passwd
    /\ group' = st.group
    /\ shadow' = st.shadow
    /\ etc_files' = st.etc_files
    /\ UNCHANGED <<engine_vars, group_conf, group_sync, nextcloud, prev>>

PamNextcloudSync ==
    /\ run = NoRun
    /\ \E a \in ToolArguments, setup \in Setups, dconf \in BOOLEAN :
       \E faults \in (IF setup = "ok" THEN ToolFaults ELSE {{}}) :
       \E order \in (IF setup = "ok" /\ a.mode # "user" THEN Orders ELSE {<<alice, bob>>}) :
          Ran("pam-nextcloud-sync", a, setup, faults, order,
              pam_nextcloud_sync(group_sync, StartedOn(passwd, group, shadow, etc_files),
                                 nextcloud, a, setup, dconf, faults, order))

ProvisionNextcloudUsers ==
    /\ run = NoRun
    /\ \E a \in {b \in ToolArguments : b.mode = "group"}, setup \in Setups :
       \E faults \in (IF setup = "ok" THEN ToolFaults ELSE {{}}) :
          Ran("provision-nextcloud-users", a, setup, faults, <<alice, bob>>,
              provision_nextcloud_users(StartedOn(passwd, group, shadow, etc_files),
                                        nextcloud, a, setup, faults))

NextTools == PamNextcloudSync \/ ProvisionNextcloudUsers

SpecTools == InitTools /\ [][NextTools]_vars

----------------------------------------------------------------------------
(* get_group_members of either tool, called on its own.                     *)

Scripts == {"pam-nextcloud-sync", "provision-nextcloud-users"}
RetrievalFaults ==
    FaultsAmong({GetGroupUsers(devs), Undecodable(devs), ConnectionError(devs),
                 GetUsers, UsersUndecodable, UsersConnectionError}
                \cup {GetUserGroups(u) : u \in SyncUsers})

InitRetrieval ==
    /\ HandleAtRest
    /\ group_conf = NoGroupConf
    /\ group_sync = GroupSync_init
    /\ passwd = {}
    /\ group = <<>>
    /\ nextcloud \in [{devs, ops} -> SUBSET SyncUsers]
    /\ shadow = {}
    /\ etc_files = NoFiles
    /\ run = NoRun
    /\ prev = NoRun

\* What the function of the script gives: a list, or None (ok is FALSE).
GetGroupMembersOf(script, group_name, faults) ==
    IF script = "pam-nextcloud-sync"
    THEN [ok |-> TRUE, members |-> get_group_members(nextcloud, group_name, faults)]
    ELSE provision_get_group_members(nextcloud, group_name, faults)

GetGroupMembers ==
    /\ run = NoRun
    /\ \E script \in Scripts, faults \in RetrievalFaults :
          LET got == GetGroupMembersOf(script, devs, faults)
          IN  run' = [NoRun EXCEPT !.tool = "get_group_members", !.mode = script,
                                   !.nc_group = devs, !.faults = faults,
                                   !.ret = got.ok, !.members = got.members]
    /\ UNCHANGED <<engine_vars, group_conf, group_sync, passwd, group, nextcloud, shadow, etc_files, prev>>

NextRetrieval == GetGroupMembers

SpecRetrieval == InitRetrieval /\ [][NextRetrieval]_vars

----------------------------------------------------------------------------
(* Two processes in _cache_password for the same user at the same time, and *)
(* a third in _validate_cached_password.  Each writer has its own file      *)
(* descriptor: open(cache_file, 'w') truncates the file (350), json.dump     *)
(* fills the buffer of the file object, and leaving the with block writes    *)
(* the buffer at offset 0 (351).  The text of an entry has no fixed length:  *)
(* the digits of time.time() and of datetime.now().isoformat() vary.         *)

Writers == {"p1", "p2"}
\* The lengths of the texts, of which only the order matters.
TextSizes == {1, 2}
RaceUser == "alice"
NoRead == [password |-> "", ret |-> FALSE, done |-> FALSE]

InitRace ==
    /\ nextcloud_url = Url
    /\ enable_cache = TRUE
    /\ cache_expiry_days = 0
    /\ \E password \in Passwords :
          cache \in {[f \in CachePaths |-> NoFile],
                     _cache_password([f \in CachePaths |-> NoFile], RaceUser, password, 1, 0)}
    /\ now = 0
    /\ last = NoCall
    /\ watched = NoPair
    /\ accepted = FALSE
    /\ rejected = FALSE
    /\ NoSync

\* The entry a writer is about to write.
cache_data(w) == _cache_password(cache, RaceUser, w.password, w.salt, now)[_get_cache_file_path(RaceUser)]

race_frame == <<config, now, last, history, group_conf, group_sync, passwd, group, nextcloud, shadow, etc_files, prev>>

\* Two authentications of the user have been accepted by the remote and
\* both processes enter _cache_password (329-346).
CachePasswordTwice ==
    /\ run = NoRun
    /\ \E passwords \in [Writers -> Passwords], sizes \in [Writers -> TextSizes], salts \in [Writers -> Salts] :
          run' = [tool |-> "_cache_password", size |-> 0, read |-> NoRead,
                  before |-> cache[_get_cache_file_path(RaceUser)],
                  writers |-> [p \in Writers |->
                                 [pc |-> "open", password |-> passwords[p],
                                  salt |-> salts[p], size |-> sizes[p]]]]
    /\ UNCHANGED <<cache, race_frame>>

\* open(cache_file, 'w') (350): the file is there and empty.
WriterOpens(p) ==
    /\ run.tool = "_cache_password"
    /\ run.writers[p].pc = "open"
    /\ cache' = [cache EXCEPT ![_get_cache_file_path(RaceUser)] = Corrupt]
    /\ run' = [run EXCEPT !.size = 0, !.writers[p].pc = "dump"]
    /\ UNCHANGED race_frame

\* The end of the with block (350-351): the text is written at offset 0 over
\* what the file holds by now; what lies beyond its end stays.
WriterDumps(p) ==
    /\ run.tool = "_cache_password"
    /\ run.writers[p].pc = "dump"
    /\ cache' = [cache EXCEPT ![_get_cache_file_path(RaceUser)] =
                    IF run.size > run.writers[p].size THEN Corrupt ELSE cache_data(run.writers[p])]
    /\ run' = [run EXCEPT !.size = IF @ > run.writers[p].size THEN @ ELSE run.writers[p].size,
                          !.writers[p].pc = "done"]
    /\ UNCHANGED race_frame

\* An authentication that falls back to the cache reads the file meanwhile.
ReaderValidates ==
    /\ run.tool = "_cache_password"
    /\ ~run.read.done
    /\ \E password \in Passwords :
          LET v == _validate_cached_password(cache, RaceUser, password, now)
          IN  /\ cache' = v.cache
              /\ run' = [run EXCEPT !.read = [password |-> password, ret |-> v.ret, done |-> TRUE]]
    /\ UNCHANGED race_frame

NextRace ==
    \/ CachePasswordTwice
    \/ \E p \in Writers : WriterOpens(p)
    \/ \E p \in Writers : WriterDumps(p)
    \/ ReaderValidates

SpecRace == InitRace /\ [][NextRace]_vars

----------------------------------------------------------------------------
(* Logins: what pam_sm_authenticate does after a granted authentication     *)
(* (770-808) and what pam_sm_open_session does with the group list it left  *)
(* (956-987).  The handle is taken to have the functions at 291-693 as its  *)
(* methods, as these lines take it to have.  Here passwd and group are the  *)
(* local accounts and groups by name, etc_files the home directories and    *)
(* the files /run/pam-nextcloud/<uid>/groups.json, and run the count of the *)
(* granted authentications of each user and the lists sessions applied.     *)

MaxLogins == 2
MaxSessions == 2

\* The usernames the remote may know, and how they are spelled.
LoginUsers == {"alice", "Bob"}
Spelling(username) ==
    CASE username = "alice" -> <<"a", "l", "i", "c", "e">>
      [] username = "Bob" -> <<"B", "o", "b">>
      [] OTHER -> <<>>
LowerLetters == {"a", "b", "c", "d", "e", "f", "g", "h", "i", "j", "k", "l", "m", "n", "o", "p", "q", "r", "s", "t", "u", "v", "w", "x", "y", "z"}
Digits == {"0", "1", "2", "3", "4", "5", "6", "7", "8", "9"}

\* re.fullmatch(r'[a-z_][a-z0-9_-]*\$?', username)
_is_valid_username(username) ==
    LET s == Spelling(username)
        body == IF s # <<>> /\ s[Len(s)] = "$" THEN SubSeq(s, 1, Len(s) - 1) ELSE s
    IN  /\ body # <<>>
        /\ body[1] \in LowerLetters \cup {"_"}
        /\ \A i \in 2..Len(body) : body[i] \in LowerLetters \cup Digits \cup {"_", "-"}

\* _load_provisioning_config: the [provisioning] section as the file has it.
ProvisioningConfigs ==
    {[enable_user_provisioning |-> e, create_home |-> TRUE, primary_group |-> g] :
        e \in BOOLEAN, g \in {None, "staff"}}

\* What get_user_groups of the handle returns: None on any failure, or a list.
GroupAnswers == {<<None>>, <<>>, <<"devs">>}
\* The places of the follow-up steps and of the session where a call fails.
FollowUpFaults == {None, "getpwnam", "groupadd", "useradd", "_ensure_home_directory", "get_user_groups", "groups_file"}
SessionReadFaults == {None, "json.load", "os.remove"}

NoGroupsFile == [groups |-> <<None>>, login |-> 0]
Local(pw, g, files) == [passwd |-> pw, group |-> g, home |-> files.home, groups_json |-> files.groups_json]

\* _ensure_group (188-200) and the module's _create_local_user (203-256).
_ensure_group(g, group_name, fault) ==
    IF group_name \in DOMAIN g THEN [ok |-> TRUE, group |-> g]
    ELSE IF fault = "groupadd" THEN [ok |-> FALSE, group |-> g]
    ELSE [ok |-> TRUE, group |-> [n \in DOMAIN g \cup {group_name} |-> IF n \in DOMAIN g THEN g[n] ELSE {}]]

\* A faulty _create_local_user that does not look at the name.
_create_local_user_unchecked(local, username, prov_cfg, fault) ==
    LET ensured == IF prov_cfg.primary_group # None
                   THEN _ensure_group(local.group, prov_cfg.primary_group, fault).group
                   ELSE local.group
    IN  IF fault = "useradd" \/ username \in local.passwd
        THEN [ok |-> FALSE, local |-> [local EXCEPT !.group = ensured]]
        ELSE [ok |-> TRUE,
              local |-> [local EXCEPT !.group = ensured, !.passwd = @ \cup {username},
                                      !.home = IF prov_cfg.create_home THEN @ \cup {username} ELSE @]]

_create_local_user(local, username, prov_cfg, fault) ==
    LET ensured == IF prov_cfg.primary_group # None
                   THEN _ensure_group(local.group, prov_cfg.primary_group, fault).group
                   ELSE local.group
    IN  IF ~_is_valid_username(username) THEN [ok |-> FALSE, local |-> local]
        ELSE IF fault = "useradd" \/ username \in local.passwd
        THEN [ok |-> FALSE, local |-> [local EXCEPT !.group = ensured]]
        ELSE [ok |-> TRUE,
              local |-> [local EXCEPT !.group = ensured, !.passwd = @ \cup {username},
                                      !.home = IF prov_cfg.create_home THEN @ \cup {username} ELSE @]]

\* _ensure_home_directory (259-289).
_ensure_home_directory(local, username, prov_cfg, fault) ==
    IF ~prov_cfg.create_home \/ username \notin local.passwd \/ fault = "_ensure_home_directory"
    THEN local
    ELSE [local EXCEPT !.home = @ \cup {username}]

\* What line 808 returns after the follow-up steps, failed or not.
\* A faulty one that reports a failed step to the host.
pam_after_follow_up_reporting(failed) == IF failed THEN "PAM_AUTH_ERR" ELSE "PAM_SUCCESS"
pam_after_follow_up(failed) == "PAM_SUCCESS"

\* pam_sm_authenticate, the branch of a granted authentication (770-808):
\* groups is what get_user_groups returns, login the number of this granted
\* authentication of the user, which the model writes next to the list.
granted_steps(local, username, prov_cfg, groups, fault, login) ==
    LET created == _create_local_user(local, username, prov_cfg, fault)
        provisioned == IF fault = "getpwnam" \/ username \in local.passwd
                          \/ ~prov_cfg.enable_user_provisioning
                       THEN local
                       ELSE IF created.ok
                       THEN _ensure_home_directory(created.local, username, prov_cfg, fault)
                       ELSE created.local
        persisted == /\ fault \notin {"get_user_groups", "getpwnam", "groups_file"}
                     /\ groups # <<None>> /\ groups # <<>>
                     /\ username \in provisioned.passwd
        failed == \/ fault = "getpwnam"
                  \/ (username \notin local.passwd /\ prov_cfg.enable_user_provisioning /\ ~created.ok)
                  \/ (fault = "_ensure_home_directory" /\ provisioned # local)
                  \/ fault = "get_user_groups" \/ groups = <<None>>
                  \/ (groups # <<None>> /\ groups # <<>> /\ ~persisted)
    IN  [local |-> IF persisted
                   THEN [provisioned EXCEPT !.groups_json[username] = [groups |-> groups, login |-> login]]
                   ELSE provisioned,
         failed |-> failed,
         pam |-> pam_after_follow_up(failed)]

\* pam_sm_open_session without a password, "Fallback: try to read groups
\* captured during auth phase" (967-985): the list it goes on with.
read_captured_groups(local, username, fault) ==
    IF username \notin local.passwd \/ local.groups_json[username] = NoGroupsFile
       \/ fault = "json.load"
    THEN [file |-> NoGroupsFile, local |-> local]
    ELSE [file |-> local.groups_json[username],
          local |-> IF fault = "os.remove" THEN local
                    ELSE [local EXCEPT !.groups_json[username] = NoGroupsFile]]

NoLogins == [tool |-> "login", auths |-> [u \in LoginUsers |-> 0], sessions |-> 0, applied |-> {}]

InitLogin ==
    /\ nextcloud_url = Url
    /\ enable_cache = TRUE
    /\ cache_expiry_days = 0
    /\ cache = [f \in {_get_cache_file_path(u) : u \in LoginUsers} |-> NoFile]
    /\ now = 0
    /\ last = NoCall
    /\ watched = NoPair
    /\ accepted = FALSE
    /\ rejected = FALSE
    /\ group_conf = NoGroupConf
    /\ group_sync = GroupSync_init
    /\ passwd \in {{}, {"alice"}}
    /\ group = <<>>
    /\ nextcloud = <<>>
    /\ shadow = {}
    /\ etc_files = [home |-> passwd, groups_json |-> [u \in LoginUsers |-> NoGroupsFile]]
    /\ run = NoLogins
    /\ prev = NoRun

login_frame == <<config, now, history, group_conf, group_sync, nextcloud, shadow, prev>>

\* The call record of pam_sm_authenticate in a login.
LoginCall(username, ret, failed, fault, pam, prov_cfg) ==
    [NoCall EXCEPT !.verb = "pam_sm_authenticate", !.username = username, !.ret = ret,
                   !.exception = fault, !.raised = failed, !.pam = pam,
                   !.flags = IF prov_cfg.enable_user_provisioning THEN {"enable_user_provisioning"} ELSE {}]

\* The host calls pam_sm_authenticate with a user and a password.
PamSmAuthenticateLogin ==
    /\ run.auths["alice"] + run.auths["Bob"] < MaxLogins
    /\ \E username \in LoginUsers, response \in OldPasswordResponses :
          LET a == authenticate(cache, username, "pw1", response, 1, now)
              login == run.auths[username] + 1
          IN  /\ cache' = a.cache
              /\ \E prov_cfg \in ProvisioningConfigs :
                    IF a.ret
                    THEN \E groups \in GroupAnswers, fault \in FollowUpFaults :
                            LET r == granted_steps(Local(passwd, group, etc_files), username,
                                                   prov_cfg, groups, fault, login)
                            IN  /\ last' = LoginCall(username, TRUE, r.failed, fault, r.pam, prov_cfg)
                                /\ passwd' = r.local.passwd
                                /\ group' = r.local.group
                                /\ etc_files' = [home |-> r.local.home, groups_json |-> r.local.groups_json]
                                /\ run' = [run EXCEPT !.auths[username] = login]
                    ELSE /\ last' = LoginCall(username, FALSE, FALSE, None, "PAM_AUTH_ERR", prov_cfg)
                         /\ UNCHANGED <<passwd, group, etc_files, run>>
    /\ UNCHANGED login_frame

\* The host calls pam_sm_open_session; the handle holds no password, group
\* synchronisation is enabled and the group script is installed.
PamSmOpenSessionLogin ==
    /\ run.sessions < MaxSessions
    /\ \E username \in LoginUsers, fault \in SessionReadFaults :
          LET r == read_captured_groups(Local(passwd, group, etc_files), username, fault)
          IN  /\ etc_files' = [etc_files EXCEPT !.groups_json = r.local.groups_json]
              /\ run' = [run EXCEPT !.sessions = @ + 1,
                                    !.applied = IF r.file = NoGroupsFile THEN @
                                                ELSE @ \cup {[username |-> username, groups |-> r.file.groups,
                                                              login |-> r.file.login,
                                                              latest |-> run.auths[username],
                                                              session |-> run.sessions + 1]}]
              /\ last' = [NoCall EXCEPT !.verb = "pam_sm_open_session", !.username = username,
                                        !.pam = "PAM_SUCCESS"]
    /\ UNCHANGED <<cache, passwd, group, login_frame>>

NextLogin == PamSmAuthenticateLogin \/ PamSmOpenSessionLogin

SpecLogin == InitLogin /\ [][NextLogin]_vars

----------------------------------------------------------------------------
(* Claims *)

Accept200 == HttpResponse(200)
Reject401 == HttpResponse(401)

\* An outcome of the request that is neither the accept nor the reject.
Ambiguous(response) == response \notin {Accept200, Reject401}

EntryOf(c, username) == c[_get_cache_file_path(username)]

\* The entry is within its expiry at time t.
WithinExpiry(entry, t) ==
    \/ cache_expiry_days = 0
    \/ t <= entry.timestamp + cache_expiry_days * DaySeconds

\* The entry stores this username and the hash of this password under its salt.
EntryMatches(entry, username, password) ==
    /\ entry.kind = "json"
    /\ entry.username = username
    /\ _hash_password(password, FromHex(entry.salt)) = entry.password_hash

\* The step is a call of authenticate that sent its request.
AuthenticateStep == last'.verb = "authenticate" /\ last'.requested

\* C1: for a username with a present, unexpired entry that stores that
\* username, and for every password, a call of authenticate that the remote
\* answers with 401 returns False, whatever the entry verifies.
C1_RejectIsDenied ==
    [][(/\ AuthenticateStep
        /\ last'.response = Reject401
        /\ EntryOf(cache, last'.username).kind = "json"
        /\ EntryOf(cache, last'.username).username = last'.username
        /\ WithinExpiry(EntryOf(cache, last'.username), now))
       => (~last'.ret /\ ~last'.raised)]_vars

\* C1 witness: a 401 for the very password a valid entry verifies; denied.
C1_Witness ==
    /\ last.verb = "authenticate"
    /\ last.response = Reject401
    /\ enable_cache
    /\ EntryMatches(EntryOf(cache, last.username), last.username, last.password)
    /\ WithinExpiry(EntryOf(cache, last.username), now)
    /\ ~last.ret

\* C2: with a configured handle and a non-empty username and password, and
\* no exception raised inside the verb, pam_sm_authenticate returns
\* PAM_SUCCESS when the remote's answer to the credential verification is 200.
C2_HostAuthenticateGrantsOnAccept ==
    (/\ last.verb = "pam_sm_authenticate"
     /\ nextcloud_url # None
     /\ last.username # ""
     /\ last.password # ""
     /\ last.exception = None
     /\ last.response = Accept200)
    => last.pam = "PAM_SUCCESS"

\* C3: if the entry of the followed user verifies the followed password, the
\* remote has accepted that pair in a verification or confirmed a change to
\* it; and a call writes the cache only after a 200 to its verification or
\* after a password update the remote confirmed.
C3_CacheOnlyAfterRemoteAccept ==
    /\ (watched # NoPair /\ EntryMatches(EntryOf(cache, watched[1]), watched[1], watched[2]))
          => accepted
    /\ "write" \in last.ops => (last.requested /\ last.response = Accept200)
    /\ "write" \in last.commit_ops
          => (last.put_sent /\ last.put_response = Accept200 /\ OcsStatusOk(last.body))

\* C4: once the remote has rejected the followed pair and not accepted it
\* since, no call of authenticate with that pair whose request has an
\* ambiguous outcome returns True.
C4_NoGrantAfterReject ==
    ~(/\ last.verb = "authenticate"
      /\ <<last.username, last.password>> = watched
      /\ last.requested
      /\ Ambiguous(last.response)
      /\ rejected
      /\ last.ret)

\* C5: every ambiguous outcome of the request gives the same decision: False
\* when caching is disabled, otherwise what _validate_cached_password gives
\* on the cache as it was, with its effect on the cache; nothing is raised.
C5_AmbiguousFallsToCache ==
    [][(AuthenticateStep /\ Ambiguous(last'.response))
       => (/\ ~last'.raised
           /\ ~enable_cache => (~last'.ret /\ cache' = cache /\ last'.ops = {})
           /\ enable_cache =>
                LET v == _validate_cached_password(cache, last'.username,
                                                   last'.password, now)
                IN  last'.ret = v.ret /\ cache' = v.cache /\ last'.ops = v.ops)]_vars

\* C5 witness: a request that raised something other than the three named
\* exceptions, decided by the cache.
C5_Witness ==
    /\ last.verb = "authenticate"
    /\ last.response = RaisedBy("Exception")
    /\ enable_cache
    /\ last.ret

\* C6: a call of authenticate answered with 200 or 401 performs no exists,
\* read or remove on the cache; a 401 leaves the cache as it was and a 200
\* changes nothing but, by a write, the entry of its username.
C6_CacheReadOnlyWhenAmbiguous ==
    [][(AuthenticateStep /\ ~Ambiguous(last'.response))
       => (/\ last'.ops \cap {"exists", "read", "remove"} = {}
           /\ last'.response = Reject401 => cache' = cache
           /\ \A f \in CachePaths :
                 cache'[f] # cache[f]
                   => (/\ f = _get_cache_file_path(last'.username)
                       /\ "write" \in last'.ops
                       /\ cache'[f].kind = "json"))]_vars

\* C6 witness: a 401 with an entry in place, and no operation on the cache.
C6_Witness ==
    /\ last.verb = "authenticate"
    /\ last.requested
    /\ last.response = Reject401
    /\ EntryOf(cache, last.username).kind = "json"
    /\ last.ops = {}

\* C7: on the fallback path authenticate returns True exactly when caching
\* is enabled, an entry exists, it is within its expiry, it stores the
\* requested username and the hash of the password under its salt is the
\* stored hash.
C7_FallbackGrantsIffEntryVerifies ==
    [][(AuthenticateStep /\ Ambiguous(last'.response))
       => (last'.ret <=>
             (/\ enable_cache
              /\ EntryOf(cache, last'.username).kind = "json"
              /\ WithinExpiry(EntryOf(cache, last'.username), now)
              /\ EntryOf(cache, last'.username).username = last'.username
              /\ _hash_password(last'.password,
                                FromHex(EntryOf(cache, last'.username).salt))
                   = EntryOf(cache, last'.username).password_hash))]_vars

\* C7 witness: the fallback denies on an entry put there from another user,
\* although the entry holds the hash of the password supplied.
C7_Witness ==
    /\ last.verb = "authenticate"
    /\ Ambiguous(last.response)
    /\ last.requested
    /\ enable_cache
    /\ EntryOf(cache, last.username).kind = "json"
    /\ EntryOf(cache, last.username).username # last.username
    /\ _hash_password(last.password, FromHex(EntryOf(cache, last.username).salt))
         = EntryOf(cache, last.username).password_hash
    /\ ~last.ret

\* C8: on the fallback path, an entry older than cache_expiry_days (not 0)
\* gives False for every password and is gone afterwards; with
\* cache_expiry_days 0 an entry of any age is not removed and is decided by
\* its username and hash alone.
C8_ExpiredEntryDeniedAndRemoved ==
    [][(/\ AuthenticateStep
        /\ Ambiguous(last'.response)
        /\ enable_cache
        /\ EntryOf(cache, last'.username).kind = "json")
       => (/\ (/\ cache_expiry_days # 0
               /\ now > EntryOf(cache, last'.username).timestamp
                          + cache_expiry_days * DaySeconds)
                => (~last'.ret /\ EntryOf(cache', last'.username) = NoFile)
           /\ cache_expiry_days = 0
                => (/\ cache' = cache
                    /\ "remove" \notin last'.ops
                    /\ last'.ret = EntryMatches(EntryOf(cache, last'.username),
                                                last'.username, last'.password)))]_vars

\* C8 witness: the fallback removed an entry that held the password supplied.
C8_Witness ==
    /\ last.verb = "authenticate"
    /\ Ambiguous(last.response)
    /\ "remove" \in last.ops
    /\ ~last.ret
    /\ EntryOf(cache, last.username) = NoFile

\* The times from now on, as far as the clock of the model goes.
LaterTimes == {now + k * DaySeconds : k \in 0..MaxTime}

C10_UnconfirmedChangeFails ==
    (/\ last.verb = "change_password"
     /\ last.put_sent
     /\ last.put_response = Accept200
     /\ last.body.meta = "present"
     /\ ~OcsStatusOk(last.body))
    => (/\ ~last.ret
        /\ "write" \notin last.commit_ops)

\* C11: if the password update is answered with 200 and a body that has no
\* status field (no meta section) or cannot be parsed, change_password
\* returns False.
C11_UnparseableChangeFails ==
    (/\ last.verb = "change_password"
     /\ last.put_sent
     /\ last.put_response = Accept200
     /\ last.body.meta \in {"absent", "unparseable"})
    => ~last.ret

\* The step is a call of change_password.
ChangePasswordStep == last'.verb = "change_password"

\* The verification of the old password gives Granted on the state before
\* the call: the remote accepts it, or the outcome is ambiguous and the cache
\* verifies it.
OldPasswordGranted ==
    /\ last'.requested
    /\ \/ last'.response = Accept200
       \/ /\ Ambiguous(last'.response)
          /\ enable_cache
          /\ EntryMatches(EntryOf(cache, last'.username), last'.username, last'.password)
          /\ WithinExpiry(EntryOf(cache, last'.username), now)

UpdateConfirmed(call) ==
    /\ call.verb = "change_password"
    /\ call.put_sent
    /\ call.put_response = Accept200
    /\ OcsStatusOk(call.body)

C15_ExceptionFailsClosed ==
    (last.verb \in {"pam_sm_authenticate", "pam_sm_chauthtok"} /\ last.exception # None)
    => (/\ last.pam # "PAM_SUCCESS"
        /\ last.exception \notin PamhExceptions
             => last.pam = (IF last.verb = "pam_sm_authenticate"
                            THEN "PAM_AUTH_ERR" ELSE "PAM_AUTHTOK_ERR"))

\* C15 witness: the call on the handle raised inside pam_sm_chauthtok, the
\* old password being given, and the verb returned PAM_AUTHTOK_ERR.
C15_Witness ==
    /\ last.verb = "pam_sm_chauthtok"
    /\ last.exception = "AttributeError"
    /\ last.password \in Passwords
    /\ last.pam = "PAM_AUTHTOK_ERR"

\* C16: on a handle without a URL (the configuration file is missing, has
\* no [nextcloud] section or no url), authenticate and change_password return
\* False for every input and raise nothing, send no request, perform no
\* operation on the cache and leave it as it was.
C16_UnconfiguredFailsClosed ==
    [][(/\ last'.verb \in {"authenticate", "change_password"}
        /\ nextcloud_url = None)
       => (/\ ~last'.ret
           /\ ~last'.raised
           /\ ~last'.requested
           /\ ~last'.put_sent
           /\ last'.ops = {}
           /\ last'.commit_ops = {}
           /\ cache' = cache)]_vars

\* C16 witness: a call with a username and a password on a handle that has
\* caching switched on and no URL; denied.
C16_Witness ==
    /\ last.verb = "authenticate"
    /\ nextcloud_url = None
    /\ enable_cache
    /\ last.username \in Users
    /\ last.password \in Passwords
    /\ ~last.ret
    /\ ~last.requested

\* C17: a call of authenticate with an empty username or an empty password
\* returns False; pam_sm_authenticate, nothing being raised inside it,
\* returns PAM_USER_UNKNOWN for an empty username and PAM_AUTH_ERR for an
\* empty password with a username; in each case no request is sent, no
\* operation is performed on the cache and the cache is as it was.
C17_EmptyCredentialsDenied ==
    [][(/\ last'.verb \in {"authenticate", "pam_sm_authenticate"}
        /\ last'.exception = None
        /\ (last'.username = "" \/ last'.password = ""))
       => (/\ ~last'.ret
           /\ ~last'.raised
           /\ ~last'.requested
           /\ last'.ops = {}
           /\ cache' = cache
           /\ last'.verb = "pam_sm_authenticate"
                => last'.pam = (IF last'.username = "" THEN "PAM_USER_UNKNOWN"
                                ELSE "PAM_AUTH_ERR"))]_vars

\* C17 witness: an empty password for a user whose entry is in the cache, on
\* a configured handle; denied without a request.
C17_Witness ==
    /\ last.verb = "authenticate"
    /\ nextcloud_url # None
    /\ last.username \in Users
    /\ last.password = ""
    /\ EntryOf(cache, last.username).kind = "json"
    /\ ~last.ret
    /\ ~last.requested

\* C18: on the fallback path, an entry that is corrupt, unreadable, lacks a
\* field or stores another username gives False for every password, raises
\* nothing and leaves the cache as it was.
C18_BrokenEntryIsMiss ==
    [][(/\ AuthenticateStep
        /\ Ambiguous(last'.response)
        /\ enable_cache
        /\ \/ EntryOf(cache, last'.username).kind \in BrokenKinds
           \/ /\ EntryOf(cache, last'.username).kind = "json"
              /\ EntryOf(cache, last'.username).username # last'.username
              /\ WithinExpiry(EntryOf(cache, last'.username), now))
       => (/\ ~last'.ret
           /\ ~last'.raised
           /\ "remove" \notin last'.ops
           /\ cache' = cache)]_vars

\* C18 witness: the fallback read a file that lacks a field; denied.
C18_Witness ==
    /\ last.verb = "authenticate"
    /\ Ambiguous(last.response)
    /\ last.requested
    /\ EntryOf(cache, last.username) = Partial
    /\ "read" \in last.ops
    /\ ~last.ret
    /\ ~last.raised

\* C19: a cache write that is cut short leaves the complete previous entry or
\* the complete new one: no cache file is ever a truncated, partly written
\* entry.
C19_CacheWriteAtomic ==
    \A f \in CachePaths : cache[f] # Corrupt

\* C20: pam_sm_open_session returns PAM_SUCCESS on every path, whatever is
\* raised inside it and whichever of its steps are carried out;
\* pam_sm_close_session returns PAM_SUCCESS, carries out no step and leaves
\* the configuration, the cache and the clock as they were.
C20_SessionAlwaysSucceeds ==
    [][(/\ last'.verb = "pam_sm_open_session" => last'.pam = "PAM_SUCCESS"
        /\ last'.verb = "pam_sm_close_session"
             => (/\ last'.pam = "PAM_SUCCESS"
                 /\ last'.steps = {}
                 /\ last'.exception = None
                 /\ UNCHANGED <<config, cache, now>>))]_vars

\* C20 witness: reading the user raised an unexpected exception in
\* pam_sm_open_session, with an entry in the cache; the verb returned
\* PAM_SUCCESS.
C20_Witness ==
    /\ last.verb = "pam_sm_open_session"
    /\ last.exception = "get_user"
    /\ \E u \in Users : EntryOf(cache, u).kind = "json"
    /\ last.pam = "PAM_SUCCESS"

ConfiguredNames(cf, nextcloud_group) ==
    LET i == CHOOSE k \in 1..Len(cf.group_mapping) : cf.group_mapping[k][1] = nextcloud_group
        names == split(cf.group_mapping[i][2], ",")
    IN  [n \in 1..Len(names) |-> strip(names[n], {" "})]
IsConfigured(cf, nextcloud_group) ==
    /\ cf.exists /\ cf.has_group_mapping /\ ~DuplicateOption(cf.group_mapping)
    /\ \E k \in 1..Len(cf.group_mapping) : cf.group_mapping[k][1] = nextcloud_group
AdminLike(nextcloud_group) == lower(nextcloud_group) \in {admin, admins, administrators}

\* C26: mapping resolution applies its rules in precedence order: a remote name
\* configured in the mapping table resolves to exactly its configured local
\* names; otherwise, with the heuristic enabled, an administrators' name
\* resolves to the first of sudo, wheel, admin that exists locally; otherwise
\* the name resolves to its normalized form.
C26_MappingPrecedence ==
    (run.tool = "_get_mapped_groups" /\ ~DuplicateOption(group_conf.group_mapping)) =>
        IF IsConfigured(group_conf, run.nc_group)
        THEN run.mapped = ConfiguredNames(group_conf, run.nc_group)
        ELSE IF /\ group_sync.enable_sudo_mapping
                /\ AdminLike(run.nc_group)
                /\ \E a \in {sudo, wheel, admin} : a \in DOMAIN group
             THEN run.mapped = <<CHOOSE a \in {sudo, wheel, admin} :
                                   /\ a \in DOMAIN group
                                   /\ a = wheel => sudo \notin DOMAIN group
                                   /\ a = admin => {sudo, wheel} \cap DOMAIN group = {}>>
             ELSE run.mapped = <<_normalize_group_name(group_sync, run.nc_group)>>
\* The passes of the run that just ended.
Passes == {run.trace[i] : i \in 1..Len(run.trace)}
AddOf(e) == Command("gpasswd -a", e.username, e.linux_group)
CreateOf(e) == Command("groupadd", <<>>, e.linux_group)

\* C27: in per-user reconciliation, for every candidate local group: if the
\* group does not exist and auto-creation is disabled the candidate is skipped
\* without marking the run failed and without an add; if it does not exist and
\* auto-creation is enabled it is created before the add; if the user is
\* already a member no command is issued; otherwise exactly one add command is
\* issued for (user, group).
C27_PerCandidateOutcome ==
    run.tool = "sync_groups" =>
        /\ \A e \in Passes :
              /\ (~e.existed /\ ~group_sync.create_missing_groups) =>
                    (e.cmds = <<>> /\ ~e.failed)
              /\ (~e.existed /\ group_sync.create_missing_groups) =>
                    /\ e.cmds[1].cmd = CreateOf(e)
                    /\ e.cmds \in {<<Op(CreateOf(e), FALSE)>>,
                                   <<Op(CreateOf(e), TRUE), Op(AddOf(e), TRUE)>>,
                                   <<Op(CreateOf(e), TRUE), Op(AddOf(e), FALSE)>>}
              /\ e.was_member => e.cmds = <<>>
              /\ (e.existed /\ ~e.was_member) =>
                    (Len(e.cmds) = 1 /\ e.cmds[1].cmd = AddOf(e))
        /\ run.ret = (\A e \in Passes : ~e.failed)

\* C27 happens: one run of sync_groups meets a missing group that it creates
\* and a group the user is in already.
C27_Witness ==
    /\ run.tool = "sync_groups"
    /\ \E e \in Passes : ~e.existed /\ Len(e.cmds) = 2 /\ e.cmds[2].ok
    /\ \E e \in Passes : e.was_member
\* The adds and removes of the bulk run that just ended.
BulkRun == run.tool = "pam-nextcloud-sync" /\ run.mode = "sync-all-groups"
Changes == {run.trace[i] : i \in {k \in 1..Len(run.trace) : run.trace[k].action \in {"add", "remove"}}}

\* C21: in bulk reconciliation a remote group whose member list could not be
\* retrieved is a hard failure for that group: no user is added to or removed
\* from the mapped local group on the basis of the failed retrieval.
C21_FailedRetrievalChangesNothing ==
    BulkRun => \A e \in Changes : GetGroupUsers(e.nc_group) \notin run.faults

\* C22: in bulk reconciliation an add is issued only for users that exist
\* locally, are remote members and are not yet local members, and a remove only
\* for users that exist locally, are local members and are not remote members;
\* no command is issued for a user without a local account, and no account is
\* created.
C22_DeltaOnlyForLocalUsers ==
    BulkRun =>
        /\ \A e \in Changes :
              /\ e.username \in passwd
              /\ e.action = "add" =>
                    (e.username \in nextcloud[e.nc_group] /\ e.username \notin e.local_members)
              /\ e.action = "remove" =>
                    (e.username \in e.local_members /\ e.username \notin nextcloud[e.nc_group])
        /\ \A i \in 1..Len(run.ops) :
              /\ run.ops[i].cmd.user \in passwd
              /\ run.ops[i].cmd.cmd # "useradd"

\* C23: reconciliation run twice in a row, with the remote, the mapping and the
\* local state otherwise unchanged, has an empty delta the second time: the
\* second run issues no add, no remove and no group creation.
C23_SecondRunIsEmpty ==
    (/\ BulkRun /\ ~run.dry_run
     /\ prev.tool = "pam-nextcloud-sync" /\ prev.faults = {} /\ run.faults = {}) =>
        run.ops = <<>>

\* C24: two runs on the same remote groups, members, local state and mapping
\* issue the same adds and removes in the same order: the users of a group are
\* processed in sorted order.
C24_UsersInSortedOrder ==
    BulkRun =>
        \A i, j \in 1..Len(run.trace) :
            (/\ i < j
             /\ run.trace[i].nc_group = run.trace[j].nc_group
             /\ run.trace[i].linux_group = run.trace[j].linux_group
             /\ run.trace[i].action = run.trace[j].action) =>
                str_lt(run.trace[i].username, run.trace[j].username)

\* C28: a local command that fails for one (user, group) pair never aborts the
\* batch: every other user and group of the run is still processed.
C28_FailureDoesNotAbort ==
    BulkRun => run.left = {}

\* The run of a tool, and what went wrong in it: the tool could not start, a
\* retrieval failed, or a command that changes accounts or groups failed.
ToolRun == run.tool \in {"pam-nextcloud-sync", "provision-nextcloud-users"}
FailureOccurred ==
    \/ run.setup \in {"not root", "no config", "no admin user", "no admin password"}
    \/ run.mode = "group" /\ run.nc_group = <<>>
    \/ run.mode = "user" /\ run.username \notin passwd
    \/ run.failed_requests # {}
    \/ run.raised
    \/ \E i \in 1..Len(run.ops) :
          ~run.ops[i].ok /\ run.ops[i].cmd.cmd \in {"useradd", "groupadd", "gpasswd -a", "gpasswd -d"}

\* C29: a tool exits with 130 when it was interrupted, with 1 when any failure
\* occurred (missing configuration or credentials, failed retrieval, failed
\* user creation, failed group synchronisation), and with 0 exactly otherwise.
C29_ExitStatusTellsFailure ==
    ToolRun =>
        run.exit = IF run.setup = "KeyboardInterrupt" THEN 130
                   ELSE IF FailureOccurred THEN 1 ELSE 0

\* C30: a run with --dry-run, in any mode of either tool, changes nothing of
\* the local state: no user, no locked password, no membership, no file.
C30_DryRunChangesNothing ==
    [][run'.dry_run => UNCHANGED <<passwd, group, shadow, etc_files>>]_vars

\* C31: per-user synchronisation only adds: every local group stays, every
\* member of a local group stays a member, the only new member of any group is
\* the given user, and the only commands run are the creation of a group and
\* the addition of that user to a group.
C31_PerUserSyncIsAdditive ==
    [][run'.tool = "sync_groups" =>
          /\ DOMAIN group \subseteq DOMAIN group'
          /\ \A n \in DOMAIN group : group[n] \subseteq group'[n]
          /\ \A n \in DOMAIN group' :
                group'[n] \ (IF n \in DOMAIN group THEN group[n] ELSE {}) \subseteq {run'.username}
          /\ \A i \in 1..Len(run'.ops) :
                \/ run'.ops[i].cmd.cmd = "groupadd"
                \/ run'.ops[i].cmd.cmd = "gpasswd -a" /\ run'.ops[i].cmd.user = run'.username
          /\ UNCHANGED <<passwd, shadow, etc_files>>]_vars

\* C31 happens: the user was added to a group that has another member, while
\* being a member of a group that is not on the remote list.
C31_Witness ==
    /\ run.tool = "sync_groups"
    /\ \E e \in Passes : e.existed /\ ~e.was_member /\ ~e.failed
                           /\ group[e.linux_group] \ {e.username} # {}
    /\ \E n \in DOMAIN group : run.username \in group[n] /\ \A e \in Passes : e.linux_group # n

\* The common pairs of the bulk run: a remote group and the first of its
\* candidates that is a local group.
CommonPairs ==
    {<<nc_group, linux_group>> \in (DOMAIN nextcloud) \X (DOMAIN group) :
        LET mapped == _get_mapped_groups(group_sync, group, nc_group)
        IN  \E i \in 1..Len(mapped) :
               /\ mapped[i] = linux_group
               /\ \A j \in 1..(i - 1) : mapped[j] \notin DOMAIN group}
LocallyExisting(members) == {u \in members : user_exists(passwd, u)}

\* C32: after a bulk run in which nothing failed, for every common pair of a
\* remote and a local group the members of the local group that exist locally
\* are the members of the remote group that exist locally, also when several
\* remote groups map to one local group.
C32_BulkRunConverges ==
    (/\ BulkRun /\ ~run.dry_run /\ run.faults = {} /\ ~run.raised
     /\ \A e \in Changes : e.ok) =>
        \A pair \in CommonPairs :
            LocallyExisting(group[pair[2]]) = LocallyExisting(nextcloud[pair[1]])

\* The run of get_group_members whose request for the members of the group
\* was answered with another status than 200 or with a body that cannot be
\* decoded; the enumeration of all users failing; the members by enumeration.
GroupRequestFailed ==
    /\ run.tool = "get_group_members"
    /\ run.faults \cap {GetGroupUsers(run.nc_group), Undecodable(run.nc_group)} # {}
    /\ ConnectionError(run.nc_group) \notin run.faults
EnumerationFailed == run.faults \cap {GetUsers, UsersUndecodable, UsersConnectionError} # {}
MembersByEnumeration ==
    {u \in UNION {nextcloud[n] : n \in DOMAIN nextcloud} :
        \E i \in 1..Len(get_user_groups(nextcloud, u, run.faults)) :
            get_user_groups(nextcloud, u, run.faults)[i] = run.nc_group}

\* C33: when the request for the members of a group fails with a status other
\* than 200 or an undecodable body, get_group_members of either tool returns
\* exactly the users whose own group list contains the group, and reports an
\* error instead of a list only when the enumeration of all users fails.
C33_FallbackEnumeratesUsers ==
    GroupRequestFailed =>
        IF EnumerationFailed THEN ~run.ret
        ELSE run.ret /\ run.members = MembersByEnumeration

\* A call on the engine that has just been made, and the other users.
EngineCall == last' # last /\ last'.verb \in {"authenticate", "change_password", "pam_sm_authenticate", "pam_sm_chauthtok"}
OtherUsers(username) == Users \ {username}
\* What the file of another user can hold: nothing, something unreadable, or
\* an entry written for any user and any password.
OtherEntries ==
    {NoFile, Corrupt}
    \cup {[kind |-> "json", username |-> u, password_hash |-> _hash_password(pw, salt),
           salt |-> Hex(salt), timestamp |-> now] : u \in Users, pw \in Passwords, salt \in Salts}

\* C35: authentication and password change for a user read, write and delete
\* only the cache entry of that user: the entry of every other user is
\* unchanged by the call, and the decision is the same whatever the entry of
\* the other user holds.
C35_OnlyOwnEntry ==
    [][EngineCall =>
          \A v \in OtherUsers(last'.username) :
             /\ cache'[_get_cache_file_path(v)] = cache[_get_cache_file_path(v)]
             /\ \A e \in OtherEntries :
                   LET c == [cache EXCEPT ![_get_cache_file_path(v)] = e]
                   IN  /\ last'.verb = "authenticate" =>
                             authenticate(c, last'.username, last'.password, last'.response,
                                          last'.salt, now).ret = last'.ret
                       /\ last'.verb = "change_password" =>
                             change_password(c, last'.username, last'.password, last'.new_password,
                                             last'.response, last'.salt, last'.put_response,
                                             last'.new_salt, now).ret = last'.ret]_vars

\* C35 happens: a user is granted from the cache while the other user has an
\* entry of their own.
C35_Witness ==
    /\ last.verb = "authenticate" /\ last.username = "alice"
    /\ last.ret /\ "read" \in last.ops
    /\ cache[_get_cache_file_path("bob")].kind = "json"
    /\ cache[_get_cache_file_path("alice")] # cache[_get_cache_file_path("bob")]

\* C36: an authentication granted from the cache leaves the cache as it was,
\* and an authentication that does not write an entry changes the cache at
\* most by removing the expired entry of its user.
C36_CacheHitChangesNothing ==
    [][(last' # last /\ last'.verb \in {"authenticate", "pam_sm_authenticate"}) =>
          /\ (last'.ret /\ "read" \in last'.ops) => cache' = cache
          /\ "write" \notin last'.ops =>
                \/ cache' = cache
                \/ LET cache_file == _get_cache_file_path(last'.username)
                    IN  /\ cache[cache_file].kind = "json"
                        /\ _is_cache_expired(cache[cache_file].timestamp, now)
                        /\ cache' = [cache EXCEPT ![cache_file] = NoFile]]_vars

\* C36 happens: a user is granted from an entry written on an earlier day,
\* which still carries the time of its writing.
C36_Witness ==
    /\ last.verb = "authenticate" /\ last.ret /\ "read" \in last.ops
    /\ cache[_get_cache_file_path(last.username)].kind = "json"
    /\ cache[_get_cache_file_path(last.username)].timestamp < now

\* The call of pam_sm_chauthtok that just returned, and what every call with
\* a flag keeps to: the preliminary check sends no update and writes no new
\* password, and an update is sent only under the update flag.
ChauthtokCall == last.verb = "pam_sm_chauthtok"
FlaggedCallsKeepToTheirPhase ==
    /\ PAM_PRELIM_CHECK \in last.flags => (~last.put_sent /\ last.commit_ops = {})
    /\ last.put_sent => (PAM_UPDATE_AUTHTOK \in last.flags /\ PAM_PRELIM_CHECK \notin last.flags)

RaceOver == run.tool = "_cache_password" /\ \A p \in Writers : run.writers[p].pc = "done"
Verifies(entry, password) ==
    _validate_cached_password([cache EXCEPT ![_get_cache_file_path(RaceUser)] = entry],
                              RaceUser, password, now).ret

\* C34: after two concurrent cache writes for one user the file holds the
\* complete entry of one of the two writers, never a mixture; and a concurrent
\* offline authentication is granted only for a password that the old entry
\* or the entry of one of the writers verifies.
C34_LastWriteWins ==
    /\ RaceOver =>
          \E p \in Writers : cache[_get_cache_file_path(RaceUser)] = cache_data(run.writers[p])
    /\ (run.tool = "_cache_password" /\ run.read.ret) =>
          \/ Verifies(run.before, run.read.password)
          \/ \E p \in Writers : Verifies(cache_data(run.writers[p]), run.read.password)

\* The call of pam_sm_authenticate that is made in this step.
AuthenticateStepOfLogin == last' # last /\ last'.verb = "pam_sm_authenticate" /\ run.tool = "login"

\* C38: the authentication path creates a local account only for the user
\* whose authentication was granted in the same call, with provisioning
\* enabled, no account of that name and a valid POSIX name; a denied
\* authentication creates no account, no group and no home directory.
C38_AccountOnlyAfterGrant ==
    [][AuthenticateStepOfLogin =>
          /\ passwd' # passwd =>
                /\ last'.ret
                /\ "enable_user_provisioning" \in last'.flags
                /\ last'.username \notin passwd
                /\ _is_valid_username(last'.username)
                /\ passwd' = passwd \cup {last'.username}
          /\ ~last'.ret => UNCHANGED <<passwd, group, etc_files>>]_vars

\* C38 happens: a granted authentication has created the account of the user.
C38_Witness ==
    /\ run.tool = "login" /\ last.verb = "pam_sm_authenticate" /\ last.ret
    /\ last.username = "alice" /\ "alice" \in passwd /\ "alice" \in etc_files.home
    /\ "staff" \in DOMAIN group

\* C39: a granted authentication returns PAM_SUCCESS to the host whatever
\* becomes of provisioning, of the home directory, of the retrieval of the
\* groups and of the writing of the captured list.
C39_GrantSurvivesFollowUp ==
    (run.tool = "login" /\ last.verb = "pam_sm_authenticate" /\ last.ret) =>
        last.pam = "PAM_SUCCESS"

\* C39 happens: a step after a granted authentication has failed.
C39_Witness ==
    /\ run.tool = "login" /\ last.verb = "pam_sm_authenticate" /\ last.ret
    /\ last.raised /\ last.exception = "useradd" /\ last.pam = "PAM_SUCCESS"

====
